---- MODULE Spec2Model ----
(***************************************************************************)
(* Model of the scientific-results validator                               *)
(*   src/testing/scripts/validate-scientific-results.py                    *)
(*                                                                         *)
(* Numbers.  Array values are integers counted in units of 1e-11, so the   *)
(* absolute tolerance 1e-10 of the code is 10 units.  Arithmetic is exact: *)
(* a mean is kept as the pair (sum, n), an rmse as (sum of squares, n),    *)
(* a threshold as a fraction num/den, and every comparison the code makes  *)
(* between quotients is made by cross-multiplication.  IEEE rounding is    *)
(* not modelled.  The relative checks are invariant under a common scale   *)
(* of reference and test, so [100,100] against [100,105] stands for any    *)
(* pair of arrays in that proportion.                                      *)
(*                                                                         *)
(* Names.  A variable name or species key is the sequence of its segments  *)
(* between underscores: "SpeciesConc_O3" is <<"SpeciesConc","O3">>.        *)
(***************************************************************************)
EXTENDS Integers, Sequences, FiniteSets, TLC

\* ---------------------------------------------------------------- bounds
\* longest flat array drawn for the comparator specification
MaxLen == 2

\* ------------------------------------------------------- program constants
\* the not-a-number marker of an array element (np.isnan is true of it only)
NaN == -99999

\* 1e-10 in units of 1e-11: the near-zero tolerance of the zero-mean branch
ZeroTol == 10

\* a fraction num/den, den > 0
Frac(n, d) == [num |-> n, den |-> d]

\* marker for an absent command line option / a failed load
None == [none |-> TRUE]

VALIDATION_THRESHOLDS ==
  [mean         |-> Frac(1, 100000),
   rmse         |-> Frac(1, 10000),
   max_abs_diff |-> Frac(1, 1000)]

KEY_SPECIES == << <<"SpeciesConc", "O3">>, <<"SpeciesConc", "CO">> >>

\* ------------------------------------------------------------- arithmetic
Abs(x) == IF x < 0 THEN -x ELSE x

Max2(a, b) == IF a >= b THEN a ELSE b

RECURSIVE SumSeq(_)
SumSeq(s) == IF s = << >> THEN 0 ELSE Head(s) + SumSeq(Tail(s))

RECURSIVE MaxSeq(_)
MaxSeq(s) == IF Len(s) = 1 THEN Head(s) ELSE Max2(Head(s), MaxSeq(Tail(s)))

\* a / b <= t in place of a / b < t
QuotLess_Inclusive(a, b, t) == a * t.den <= t.num * b

\* a / b < t for integers a >= 0, b > 0 and a fraction t
QuotLess(a, b, t) == a * t.den < t.num * b

\* the largest s in lo..hi with s * s <= a, for lo * lo <= a
RECURSIVE IsqrtIn(_, _, _)
IsqrtIn(a, lo, hi) ==
  IF lo = hi THEN lo
  ELSE LET mid == (lo + hi + 1) \div 2
       IN  IF mid * mid <= a THEN IsqrtIn(a, mid, hi) ELSE IsqrtIn(a, lo, mid - 1)

\* the integer part of sqrt(a)
Isqrt(a) == IsqrtIn(a, 0, IF a < 46340 THEN a ELSE 46340)

\* sqrt(a) / b < t for integers a >= 0, b > 0 and a fraction t:
\* sqrt(a) * den < num * b, decided by the integer part s of sqrt(a) where it
\* decides, and on the squares, without forming a * den^2, where it does not
SqrtQuotLess(a, b, t) ==
  LET k == t.num * b
      s == Isqrt(a)
  IN  IF t.num <= 0 THEN FALSE
      ELSE IF s * t.den >= k THEN FALSE
      ELSE IF s * s = a \/ (s + 1) * t.den <= k THEN TRUE
      ELSE a <= ((k * k) - 1) \div (t.den * t.den)

\* the product of a float by an integer factor (args.threshold * 10)
FracTimes(t, k) == Frac(t.num * k, t.den)

FracEq(s, t) == s.num * t.den = t.num * s.den

RECURSIVE GCD(_, _)
GCD(a, b) == IF b = 0 THEN a ELSE GCD(b, a % b)

\* a fraction of positive denominator in lowest terms
Reduced(t) == LET g == GCD(Abs(t.num), t.den) IN Frac(t.num \div g, t.den \div g)

\* the sum of two fractions, over the least common denominator
FracAdd(s, t) ==
  LET g == GCD(s.den, t.den)
  IN  Reduced(Frac(s.num * (t.den \div g) + t.num * (s.den \div g),
                   (s.den \div g) * t.den))

FracMax(s, t) == IF s.num * t.den >= t.num * s.den THEN s ELSE t

RECURSIVE FracSum(_)
FracSum(s) == IF s = << >> THEN Frac(0, 1) ELSE FracAdd(Head(s), FracSum(Tail(s)))

RECURSIVE FracMaxSeq(_)
FracMaxSeq(s) ==
  IF Len(s) = 1 THEN Head(s) ELSE FracMax(Head(s), FracMaxSeq(Tail(s)))

\* ------------------------------------------------------------------ names
Range(s) == {s[i] : i \in DOMAIN s}

\* segments whose text ends in "SPC"
EndsInSPC == {"SPC", "OLDSPC"}

\* "SPC_" in name: some segment that is followed by an underscore ends in SPC
ContainsSPC_(name) == \E i \in 1..(Len(name) - 1) : name[i] \in EndsInSPC

\* "SPC_" in str(list(ds.variables)): the printed list separates the names
\* by "', '", so the substring lies inside one name
IsRestart(ds) == \E name \in DOMAIN ds : ContainsSPC_(name)

\* species_name.split('_')[1] raises IndexError when the key has no underscore
SplitFails(species_name) == Len(species_name) < 2

\* f"SPC_{species_name.split('_')[1]}": the SECOND segment alone follows SPC_
RestartVarName(species_name) == <<"SPC", species_name[2]>>

\* lines 124-129
VarName(ds, species_name) ==
  IF IsRestart(ds) THEN RestartVarName(species_name) ELSE species_name

\* ----------------------------------------------------------------- arrays
\* A dataset variable is [dims, shape, vals]: vals is the array in C order.
\* A time dimension, when present, is the first one.
HasTime(var) == var.dims # << >> /\ var.dims[1] = "time"

\* data.isel(time=i) with Python indexing: i in -T..T-1, negative from the end
IselFails(var, i) == i < -(var.shape[1]) \/ i >= var.shape[1]

Isel(var, i) ==
  LET T    == var.shape[1]
      rest == Len(var.vals) \div T
      k    == IF i < 0 THEN i + T ELSE i
  IN  [dims  |-> Tail(var.dims),
       shape |-> Tail(var.shape),
       vals  |-> SubSeq(var.vals, k * rest + 1, (k + 1) * rest)]

\* lines 137-143; main always passes an integer (argparse type=int, default -1)
SelectTime(var, time_step) ==
  IF HasTime(var)
  THEN (IF time_step = -1 THEN Isel(var, -1) ELSE Isel(var, time_step))
  ELSE var

SelectFails(var, time_step) ==
  HasTime(var) /\ time_step # -1 /\ IselFails(var, time_step)

\* some (dataset, species) step of the double loop raises
ExtractRaises(datasets, species, time_step) ==
  \E d \in DOMAIN datasets : \E i \in DOMAIN species :
     IF IsRestart(datasets[d]) /\ SplitFails(species[i])
     THEN TRUE
     ELSE /\ VarName(datasets[d], species[i]) \in DOMAIN datasets[d]
          /\ SelectFails(datasets[d][VarName(datasets[d], species[i])], time_step)

\* get_species_data when nothing raises: species -> dataset name -> slice
get_species_data(datasets, species, time_step) ==
  LET Holds(d, s) == VarName(datasets[d], s) \in DOMAIN datasets[d]
      Found(s)    == {d \in DOMAIN datasets : Holds(d, s)}
      Keys        == {s \in Range(species) : Found(s) # {}}
  IN  [s \in Keys |->
         [d \in Found(s) |->
            SelectTime(datasets[d][VarName(datasets[d], s)], time_step)]]

\* ------------------------------------------------------------- comparator
IsNaN(x) == x = NaN

\* a[mask]: the elements of a at the positions where mask is true
RECURSIVE BoolIndex(_, _)
BoolIndex(a, mask) ==
  IF a = << >> THEN << >>
  ELSE (IF Head(mask) THEN <<Head(a)>> ELSE << >>)
       \o BoolIndex(Tail(a), Tail(mask))

\* line 184
ValidIdx(ref_flat, test_flat) ==
  [i \in DOMAIN ref_flat |-> ~IsNaN(ref_flat[i]) /\ ~IsNaN(test_flat[i])]

\* the differences taken with their sign
AbsDiff_Signed(ref_valid, test_valid) ==
  [i \in DOMAIN ref_valid |-> test_valid[i] - ref_valid[i]]

\* line 193
AbsDiff(ref_valid, test_valid) ==
  [i \in DOMAIN ref_valid |-> Abs(test_valid[i] - ref_valid[i])]

\* the guard of the division made with >= in place of >
SafeIdx_Inclusive(ref_valid) == [i \in DOMAIN ref_valid |-> Abs(ref_valid[i]) >= ZeroTol]

\* line 197: safe_idx = np.abs(ref_valid) > 1e-10
SafeIdx(ref_valid) == [i \in DOMAIN ref_valid |-> Abs(ref_valid[i]) > ZeroTol]

\* lines 198-199: zero, and abs_diff / |ref_valid| where safe_idx holds
RelDiff(ref_valid, abs_diff) ==
  [i \in DOMAIN ref_valid |->
     IF SafeIdx(ref_valid)[i]
     THEN Reduced(Frac(abs_diff[i], Abs(ref_valid[i])))
     ELSE Frac(0, 1)]

\* lines 202-211.  mean_ref = sum_ref / n, mean_test = sum_test / n,
\* mean_abs_diff = sum_abs_diff / n, rmse = sqrt(sum_sq_diff / n),
\* mean_rel_diff = sum_rel_diff / n
Stats(ref_valid, test_valid) ==
  LET abs_diff == AbsDiff(ref_valid, test_valid)
      rel_diff == RelDiff(ref_valid, abs_diff)
  IN  [n            |-> Len(ref_valid),
       sum_ref      |-> SumSeq(ref_valid),
       sum_test     |-> SumSeq(test_valid),
       sum_abs_diff |-> SumSeq(abs_diff),
       max_abs_diff |-> MaxSeq(abs_diff),
       sum_sq_diff  |-> SumSeq([i \in DOMAIN abs_diff |-> abs_diff[i] * abs_diff[i]]),
       sum_rel_diff |-> FracSum(rel_diff),
       max_rel_diff |-> FracMaxSeq(rel_diff)]

\* the mean check made on the mean of the elementwise absolute differences
RelMeanDiffOk_MeanAbsDiff(stats, thresholds) ==
  QuotLess(stats.sum_abs_diff, Abs(stats.sum_ref), thresholds.mean)

\* line 216 with line 221:
\* abs(mean_ref - mean_test) / abs(mean_ref) < thresholds['mean']
RelMeanDiffOk(stats, thresholds) ==
  QuotLess(Abs(stats.sum_ref - stats.sum_test), Abs(stats.sum_ref), thresholds.mean)

\* line 217 with line 222: rmse / abs(mean_ref) < thresholds['rmse'],
\* sqrt(sum_sq/n) / (|sum_ref|/n) = sqrt(sum_sq * n) / |sum_ref|
RelRmseOk(stats, thresholds) ==
  SqrtQuotLess(stats.sum_sq_diff * stats.n, Abs(stats.sum_ref), thresholds.rmse)

\* line 218 with line 223: max_abs_diff / abs(mean_ref) < thresholds['max_abs_diff']
RelMaxDiffOk(stats, thresholds) ==
  QuotLess(stats.max_abs_diff * stats.n, Abs(stats.sum_ref), thresholds.max_abs_diff)

\* the near-zero check made with <= in place of <
ZeroMeanOk_Inclusive(stats) == Abs(stats.sum_test) <= ZeroTol * stats.n

\* line 227: abs(mean_test) < 1e-10
ZeroMeanOk(stats) == Abs(stats.sum_test) < ZeroTol * stats.n

\* the three checks joined by `or` in place of `and`
PassesValidation_AnyCheck(stats, thresholds) ==
  IF stats.sum_ref # 0
  THEN \/ RelMeanDiffOk(stats, thresholds)
       \/ RelRmseOk(stats, thresholds)
       \/ RelMaxDiffOk(stats, thresholds)
  ELSE ZeroMeanOk(stats)

\* lines 215-227
PassesValidation(stats, thresholds) ==
  IF stats.sum_ref # 0
  THEN /\ RelMeanDiffOk(stats, thresholds)
       /\ RelRmseOk(stats, thresholds)
       /\ RelMaxDiffOk(stats, thresholds)
  ELSE ZeroMeanOk(stats)

\* the shape check made on the number of elements (.size for .shape)
ShapesMatch_SizeOnly(ref_array, test_array) ==
  Len(ref_array.vals) = Len(test_array.vals)

\* line 174: the pair is compared only when the shapes are equal
ShapesMatch(ref_array, test_array) == ref_array.shape = test_array.shape

\* the pair dropped as soon as one position is not jointly valid
HasValid_AllValid(ref_array, test_array) ==
  \A i \in DOMAIN ref_array.vals : ValidIdx(ref_array.vals, test_array.vals)[i]

\* lines 180-188: the pair is compared only when a jointly valid position exists
HasValid(ref_array, test_array) ==
  \E i \in DOMAIN ref_array.vals : ValidIdx(ref_array.vals, test_array.vals)[i]

\* the stats and the verdict of a pair of valid sequences
Record(stats, thresholds) ==
  [n                 |-> stats.n,
   sum_ref           |-> stats.sum_ref,
   sum_test          |-> stats.sum_test,
   sum_abs_diff      |-> stats.sum_abs_diff,
   max_abs_diff      |-> stats.max_abs_diff,
   sum_sq_diff       |-> stats.sum_sq_diff,
   sum_rel_diff      |-> stats.sum_rel_diff,
   max_rel_diff      |-> stats.max_rel_diff,
   passes_validation |-> PassesValidation(stats, thresholds)]

\* a missing value counted as zero
NanToZero(a) == [i \in DOMAIN a |-> IF IsNaN(a[i]) THEN 0 ELSE a[i]]

\* the statistics taken over every position, a missing value counted as zero
CompareArrays_NanToZero(ref_array, test_array, thresholds) ==
  Record(Stats(NanToZero(ref_array.vals), NanToZero(test_array.vals)), thresholds)

\* lines 180-232 for a pair that passed both checks
CompareArrays(ref_array, test_array, thresholds) ==
  LET valid_idx  == ValidIdx(ref_array.vals, test_array.vals)
      ref_valid  == BoolIndex(ref_array.vals, valid_idx)
      test_valid == BoolIndex(test_array.vals, valid_idx)
  IN  Record(Stats(ref_valid, test_valid), thresholds)

\* line 168: the dataset names the species has on both sides
CommonDatasets(reference_data, test_data, s) ==
  (DOMAIN reference_data[s]) \cap (DOMAIN test_data[s])

\* line 161: the requested species extracted on both sides
CommonSpecies(reference_data, test_data, species) ==
  {s \in Range(species) : s \in DOMAIN reference_data /\ s \in DOMAIN test_data}

\* a pair without jointly valid position stored as a failed record
compare_species_FailNoValid(reference_data, test_data, species, thresholds) ==
  [s \in CommonSpecies(reference_data, test_data, species) |->
     LET Matching ==
           {d \in CommonDatasets(reference_data, test_data, s) :
              ShapesMatch(reference_data[s][d], test_data[s][d])}
     IN  [d \in Matching |->
            IF HasValid(reference_data[s][d], test_data[s][d])
            THEN CompareArrays(reference_data[s][d], test_data[s][d], thresholds)
            ELSE [n |-> 0, sum_ref |-> 0, sum_test |-> 0, sum_abs_diff |-> 0,
                  max_abs_diff |-> 0, sum_sq_diff |-> 0,
                  sum_rel_diff |-> Frac(0, 1), max_rel_diff |-> Frac(0, 1),
                  passes_validation |-> FALSE]]]

\* lines 158-236: species -> dataset name -> stats
compare_species(reference_data, test_data, species, thresholds) ==
  [s \in CommonSpecies(reference_data, test_data, species) |->
     LET Compared ==
           {d \in CommonDatasets(reference_data, test_data, s) :
              /\ ShapesMatch(reference_data[s][d], test_data[s][d])
              /\ HasValid(reference_data[s][d], test_data[s][d])}
     IN  [d \in Compared |->
            CompareArrays(reference_data[s][d], test_data[s][d], thresholds)]]

\* line 258 raises KeyError: a pair with equal shapes that has no record
PlotRaises(reference_data, test_data, species, results) ==
  \E s \in CommonSpecies(reference_data, test_data, species) :
     \E d \in CommonDatasets(reference_data, test_data, s) :
        /\ ShapesMatch(reference_data[s][d], test_data[s][d])
        /\ d \notin DOMAIN results[s]

\* lines 244-333 when nothing raises: the (species, dataset) pairs plotted
generate_comparison_plots(reference_data, test_data, species, results) ==
  {<<s, d>> \in CommonSpecies(reference_data, test_data, species)
                \X UNION {DOMAIN reference_data[s] : s \in DOMAIN reference_data} :
     /\ d \in CommonDatasets(reference_data, test_data, s)
     /\ ShapesMatch(reference_data[s][d], test_data[s][d])}

\* the (species, dataset) pairs that have a record
Records(results) ==
  {<<s, d>> \in (DOMAIN results) \X UNION {DOMAIN results[s] : s \in DOMAIN results} :
     d \in DOMAIN results[s]}

\* lines 342-359: one row per entry of comparison_results
RECURSIVE SummaryRows(_, _)
SummaryRows(results, todo) ==
  IF todo = {} THEN << >>
  ELSE LET p == CHOOSE q \in todo : TRUE
       IN  << [Species |-> p[1], Dataset |-> p[2],
               Passes  |-> results[p[1]][p[2]].passes_validation] >>
           \o SummaryRows(results, todo \ {p})

\* the report made of the rows of the passed records only
create_validation_report_PassedOnly(results) ==
  LET all_rows     == SummaryRows(results, Records(results))
      summary_rows == SelectSeq(all_rows, LAMBDA row : row.Passes)
      total        == Len(summary_rows)
      passed       == Cardinality({i \in DOMAIN summary_rows : summary_rows[i].Passes})
  IN  [summary_rows |-> summary_rows,
       total_tests  |-> total,
       passed_tests |-> passed,
       failed_tests |-> total - passed]

\* lines 388-390 and the files written at lines 365, 370, 433
create_validation_report(results) ==
  LET summary_rows == SummaryRows(results, Records(results))
      total        == Len(summary_rows)
      passed       == Cardinality({i \in DOMAIN summary_rows : summary_rows[i].Passes})
  IN  [summary_rows |-> summary_rows,
       total_tests  |-> total,
       passed_tests |-> passed,
       failed_tests |-> total - passed]

\* the tally counting the species in place of the records
TotalCount_BySpecies(results) == Cardinality(DOMAIN results)

\* lines 598-605
TotalCount(results) == Cardinality(Records(results))

PassCount(results) ==
  Cardinality({p \in Records(results) : results[p[1]][p[2]].passes_validation})

\* ----------------------------------------------------------------- loader
Put(f, k, v) == [x \in (DOMAIN f) \cup {k} |-> IF x = k THEN v ELSE f[x]]

\* lines 96-112: the files in glob order; a file that fails to parse is skipped
RECURSIVE LoadFiles(_, _)
LoadFiles(nc_files, datasets) ==
  IF nc_files = << >> THEN datasets
  ELSE LoadFiles(Tail(nc_files),
                 IF Head(nc_files).parses
                 THEN Put(datasets, Head(nc_files).stem, Head(nc_files).ds)
                 ELSE datasets)

\* lines 75-112: None for a missing directory or one without .nc files
load_netcdf_outputs(directory) ==
  IF ~directory.exists \/ directory.nc_files = << >>
  THEN None
  ELSE LoadFiles(directory.nc_files, << >>)

\* the check made with `is None`: an empty mapping is let through
Falsy_NoneOnly(datasets) == datasets = None

\* `not datasets`: None and the empty mapping are both falsy
Falsy(datasets) == datasets = None \/ DOMAIN datasets = {}

\* `if args.threshold:`: None and 0.0 are both falsy
ThresholdGiven(threshold) == threshold # None /\ threshold.num # 0

\* ------------------------------------------------------------------ state
VARIABLES
  pc,                  \* the statement of main about to run
  validation_thresholds, \* the module-level dict of lines 48-52
  args,                \* the parsed command line
  fs,                  \* the reference and the test directory on disk
  species_to_validate, \* line 554
  reference_datasets,  \* line 562
  test_datasets,       \* line 565
  reference_data,      \* line 573, the empty mapping before
  test_data,           \* line 574, the empty mapping before
  thresholds,          \* lines 577-583, None before
  comparison_results,  \* line 587, the empty mapping before
  plots,               \* the plot files written by line 591
  report,              \* the report files written by line 595, None before
  pass_count,          \* line 598
  total_count,         \* line 599
  error,               \* the uncaught exception, "" when there is none
  exit_code,           \* the exit status, -1 while the process runs
  \* benchmark-orchestrator.py, run_benchmarks and main
  bench_pc,            \* the statement of run_benchmarks or main about to run
  bench_args,          \* the parsed command line
  benchmarks,          \* the benchmarks of the selected phases, in order
  bench_i,             \* the position of the benchmark being processed
  submitted_jobs,      \* line 382, the tracking list
  submission_log,      \* the jobs the services accepted, as logged at submission
  observed,            \* the job ids the last wait saw SUCCEEDED or FAILED
  metadata,            \* the "jobs" entry of the file of line 489, None before
  \* benchmark-orchestrator.py, wait_for_batch_jobs
  wait_pc,             \* the statement of wait_for_batch_jobs about to run
  wait_args,           \* jobs, dry_run and max_wait_minutes of the call
  pending_jobs,        \* line 302
  elapsed,             \* minutes since start_time
  removed,             \* the (job id, reported status) pairs of line 336
  \* instance-benchmark.py, monitor_jobs
  mon_pc,              \* the statement of monitor_jobs about to run
  mon_jobs,            \* the jobs handed to monitor_jobs
  tracked_jobs,        \* line 229
  completed_jobs,      \* line 232
  not_found,           \* the job ids of the warnings of line 242
  last_outcome,        \* what the last round's describe_jobs gave per job id
  rounds,              \* the polling rounds made so far
  \* download_data.py, get_required_data_paths
  dl_pc,               \* the statement of get_required_data_paths about to run
  dl_config,           \* start_date and end_date of the configuration
  current_date,        \* line 40
  data_paths,          \* line 27
  dl_error             \* the exception raised, "" when there is none

validator_vars ==
  <<pc, validation_thresholds, args, fs, species_to_validate,
    reference_datasets, test_datasets, reference_data, test_data,
    thresholds, comparison_results, plots, report, pass_count,
    total_count, error, exit_code>>

orchestrator_vars ==
  <<bench_pc, bench_args, benchmarks, bench_i, submitted_jobs, submission_log,
    observed, metadata>>

wait_vars == <<wait_pc, wait_args, pending_jobs, elapsed, removed>>

monitor_vars ==
  <<mon_pc, mon_jobs, tracked_jobs, completed_jobs, not_found, last_outcome, rounds>>

download_vars == <<dl_pc, dl_config, current_date, data_paths, dl_error>>

\* the state of the programs other than validate-scientific-results.py
other_vars == <<orchestrator_vars, wait_vars, monitor_vars, download_vars>>

vars == <<validator_vars, other_vars>>

\* validate-scientific-results.py is not running
ValidatorIdle ==
  /\ pc = "idle"
  /\ validation_thresholds = VALIDATION_THRESHOLDS
  /\ args = None
  /\ fs = None
  /\ species_to_validate = << >>
  /\ reference_datasets = None
  /\ test_datasets = None
  /\ reference_data = << >>
  /\ test_data = << >>
  /\ thresholds = None
  /\ comparison_results = << >>
  /\ plots = {}
  /\ report = None
  /\ pass_count = 0
  /\ total_count = 0
  /\ error = ""
  /\ exit_code = -1

\* run_benchmarks is not running
OrchestratorIdle ==
  /\ bench_pc = "idle"
  /\ bench_args = None
  /\ benchmarks = << >>
  /\ bench_i = 0
  /\ submitted_jobs = << >>
  /\ submission_log = {}
  /\ observed = {}
  /\ metadata = None

\* wait_for_batch_jobs is not running
WaitIdle ==
  /\ wait_pc = "idle"
  /\ wait_args = None
  /\ pending_jobs = << >>
  /\ elapsed = 0
  /\ removed = {}

\* monitor_jobs is not running
MonitorIdle ==
  /\ mon_pc = "idle"
  /\ mon_jobs = << >>
  /\ tracked_jobs = << >>
  /\ completed_jobs = << >>
  /\ not_found = {}
  /\ last_outcome = << >>
  /\ rounds = 0

\* get_required_data_paths is not running
DownloadIdle ==
  /\ dl_pc = "idle"
  /\ dl_config = None
  /\ current_date = None
  /\ data_paths = << >>
  /\ dl_error = ""

\* the other programs are not running
OthersIdle == OrchestratorIdle /\ WaitIdle /\ MonitorIdle /\ DownloadIdle

\* lines 577-583: the module-level dict itself, or a new dict for an override
EffectiveThresholds(threshold) ==
  IF ThresholdGiven(threshold)
  THEN [mean         |-> threshold,
        rmse         |-> FracTimes(threshold, 10),
        max_abs_diff |-> FracTimes(threshold, 100)]
  ELSE validation_thresholds

\* ----------------------------------------------------------------- inputs
O3 == <<"SpeciesConc", "O3">>

CO == <<"SpeciesConc", "CO">>

VConst == [dims |-> <<"lev">>, shape |-> <<2>>, vals |-> <<100, 100>>]

VDiff == [dims |-> <<"lev">>, shape |-> <<2>>, vals |-> <<100, 105>>]

VNaN == [dims |-> <<"lev">>, shape |-> <<2>>, vals |-> <<NaN, NaN>>]

VGrid == [dims |-> <<"lat", "lon">>, shape |-> <<1, 2>>, vals |-> <<100, 100>>]

VHole == [dims |-> <<"lev">>, shape |-> <<2>>, vals |-> <<NaN, 100>>]

\* two time steps: [100,105] then [100,100]
VTime == [dims |-> <<"time", "lev">>, shape |-> <<2, 2>>,
          vals |-> <<100, 105, 100, 100>>]

\* the datasets a file of the run directories may hold
DatasetMenu ==
  { [v \in {O3, CO} |-> IF v = O3 THEN VTime ELSE VConst],
    [v \in {O3, CO} |-> IF v = O3 THEN VConst ELSE VNaN],
    [v \in {O3, CO} |-> IF v = O3 THEN VDiff ELSE VConst],
    [v \in {O3, CO} |-> IF v = O3 THEN VHole ELSE VConst],
    [v \in {O3} |-> VGrid],
    [v \in {O3} |-> VNaN],
    [v \in {<<"SPC", "O3">>} |-> VConst] }

FileStems == <<"d1", "d2">>

\* a .nc file: its stem, whether xr.open_dataset succeeds, and its content
FilesOf(stem) ==
  {[stem |-> stem, parses |-> TRUE, ds |-> ds] : ds \in DatasetMenu}
  \cup {[stem |-> stem, parses |-> FALSE, ds |-> << >>]}

\* the lists of files of a directory, stems distinct and in FileStems order
RECURSIVE FileLists(_)
FileLists(stems) ==
  IF stems = << >> THEN {<< >>}
  ELSE LET rest == FileLists(Tail(stems))
       IN  rest \cup {<<f>> \o r : f \in FilesOf(Head(stems)), r \in rest}

Directories ==
  {[exists |-> FALSE, nc_files |-> << >>]}
  \cup {[exists |-> TRUE, nc_files |-> l] : l \in FileLists(FileStems)}

\* --threshold: absent, 0.0, 0.01
ThresholdArgs == {None, Frac(0, 1), Frac(1, 100)}

\* --species: absent (the empty list stands for None; nargs='+' never gives
\* an empty list) or a list of keys
SpeciesArgs == {<< >>, <<O3>>}

TimeStepArgs == {-1, 0}

ArgsSet ==
  [species : SpeciesArgs, time_step : TimeStepArgs, threshold : ThresholdArgs]

\* ------------------------------------------------------------------- main
\* the state of main before line 560
Init ==
  /\ pc = "load_reference"
  /\ args \in ArgsSet
  /\ fs \in [reference : Directories, test : Directories]
  /\ species_to_validate = (IF args.species # << >> THEN args.species ELSE KEY_SPECIES)
  /\ reference_datasets = None
  /\ test_datasets = None
  /\ reference_data = << >>
  /\ test_data = << >>
  /\ thresholds = None
  /\ comparison_results = << >>
  /\ plots = {}
  /\ report = None
  /\ pass_count = 0
  /\ total_count = 0
  /\ error = ""
  /\ exit_code = -1
  /\ validation_thresholds = VALIDATION_THRESHOLDS
  /\ OthersIdle

\* line 562
LoadReference ==
  /\ pc = "load_reference"
  /\ reference_datasets' = load_netcdf_outputs(fs.reference)
  /\ pc' = "load_test"
  /\ UNCHANGED validation_thresholds
  /\ UNCHANGED other_vars
  /\ UNCHANGED <<args, fs, species_to_validate, test_datasets, reference_data,
                 test_data, thresholds, comparison_results, plots, report,
                 pass_count, total_count, error, exit_code>>

\* line 565
LoadTest ==
  /\ pc = "load_test"
  /\ test_datasets' = load_netcdf_outputs(fs.test)
  /\ pc' = "check_loaded"
  /\ UNCHANGED validation_thresholds
  /\ UNCHANGED other_vars
  /\ UNCHANGED <<args, fs, species_to_validate, reference_datasets,
                 reference_data, test_data, thresholds, comparison_results,
                 plots, report, pass_count, total_count, error, exit_code>>

\* lines 567-569
CheckLoaded ==
  /\ pc = "check_loaded"
  /\ IF Falsy(reference_datasets) \/ Falsy(test_datasets)
     THEN pc' = "done" /\ exit_code' = 1
     ELSE pc' = "extract" /\ exit_code' = exit_code
  /\ UNCHANGED validation_thresholds
  /\ UNCHANGED other_vars
  /\ UNCHANGED <<args, fs, species_to_validate, reference_datasets,
                 test_datasets, reference_data, test_data, thresholds,
                 comparison_results, plots, report, pass_count, total_count,
                 error>>

\* lines 573-574; an IndexError of get_species_data is not caught
ExtractSpecies ==
  /\ pc = "extract"
  /\ IF \/ ExtractRaises(reference_datasets, species_to_validate, args.time_step)
        \/ ExtractRaises(test_datasets, species_to_validate, args.time_step)
     THEN /\ pc' = "done" /\ exit_code' = 1 /\ error' = "IndexError"
          /\ UNCHANGED <<reference_data, test_data>>
     ELSE /\ reference_data' =
               get_species_data(reference_datasets, species_to_validate, args.time_step)
          /\ test_data' =
               get_species_data(test_datasets, species_to_validate, args.time_step)
          /\ pc' = "thresholds"
          /\ UNCHANGED <<error, exit_code>>
  /\ UNCHANGED validation_thresholds
  /\ UNCHANGED other_vars
  /\ UNCHANGED <<args, fs, species_to_validate, reference_datasets,
                 test_datasets, thresholds, comparison_results, plots, report,
                 pass_count, total_count>>

\* the override written into the module-level dict in place of a new dict
SetThresholds_InPlace ==
  /\ pc = "thresholds"
  /\ thresholds' = EffectiveThresholds(args.threshold)
  /\ validation_thresholds' = EffectiveThresholds(args.threshold)
  /\ pc' = "compare"
  /\ UNCHANGED other_vars
  /\ UNCHANGED <<args, fs, species_to_validate, reference_datasets,
                 test_datasets, reference_data, test_data, comparison_results,
                 plots, report, pass_count, total_count, error, exit_code>>

\* lines 577-583
SetThresholds ==
  /\ pc = "thresholds"
  /\ thresholds' = EffectiveThresholds(args.threshold)
  /\ pc' = "compare"
  /\ UNCHANGED validation_thresholds
  /\ UNCHANGED other_vars
  /\ UNCHANGED <<args, fs, species_to_validate, reference_datasets,
                 test_datasets, reference_data, test_data, comparison_results,
                 plots, report, pass_count, total_count, error, exit_code>>

\* line 587
CompareSpecies ==
  /\ pc = "compare"
  /\ comparison_results' =
       compare_species(reference_data, test_data, species_to_validate, thresholds)
  /\ pc' = "plots"
  /\ UNCHANGED validation_thresholds
  /\ UNCHANGED other_vars
  /\ UNCHANGED <<args, fs, species_to_validate, reference_datasets,
                 test_datasets, reference_data, test_data, thresholds, plots,
                 report, pass_count, total_count, error, exit_code>>

\* line 591; the KeyError of line 258 is not caught
GeneratePlots ==
  /\ pc = "plots"
  /\ IF PlotRaises(reference_data, test_data, species_to_validate, comparison_results)
     THEN /\ pc' = "done" /\ exit_code' = 1 /\ error' = "KeyError"
          /\ UNCHANGED plots
     ELSE /\ plots' = generate_comparison_plots(reference_data, test_data,
                        species_to_validate, comparison_results)
          /\ pc' = "report"
          /\ UNCHANGED <<error, exit_code>>
  /\ UNCHANGED validation_thresholds
  /\ UNCHANGED other_vars
  /\ UNCHANGED <<args, fs, species_to_validate, reference_datasets,
                 test_datasets, reference_data, test_data, thresholds,
                 comparison_results, report, pass_count, total_count>>

\* line 595
CreateReport ==
  /\ pc = "report"
  /\ report' = create_validation_report(comparison_results)
  /\ pc' = "count"
  /\ UNCHANGED validation_thresholds
  /\ UNCHANGED other_vars
  /\ UNCHANGED <<args, fs, species_to_validate, reference_datasets,
                 test_datasets, reference_data, test_data, thresholds,
                 comparison_results, plots, pass_count, total_count, error,
                 exit_code>>

\* lines 598-605
CountResults ==
  /\ pc = "count"
  /\ total_count' = TotalCount(comparison_results)
  /\ pass_count' = PassCount(comparison_results)
  /\ pc' = "exit"
  /\ UNCHANGED validation_thresholds
  /\ UNCHANGED other_vars
  /\ UNCHANGED <<args, fs, species_to_validate, reference_datasets,
                 test_datasets, reference_data, test_data, thresholds,
                 comparison_results, plots, report, error, exit_code>>

\* lines 612-613, and the normal return of main
Exit ==
  /\ pc = "exit"
  /\ exit_code' = (IF pass_count < total_count THEN 1 ELSE 0)
  /\ pc' = "done"
  /\ UNCHANGED validation_thresholds
  /\ UNCHANGED other_vars
  /\ UNCHANGED <<args, fs, species_to_validate, reference_datasets,
                 test_datasets, reference_data, test_data, thresholds,
                 comparison_results, plots, report, pass_count, total_count,
                 error>>

Next ==
  \/ LoadReference
  \/ LoadTest
  \/ CheckLoaded
  \/ ExtractSpecies
  \/ SetThresholds
  \/ CompareSpecies
  \/ GeneratePlots
  \/ CreateReport
  \/ CountResults
  \/ Exit

Spec == Init /\ [][Next]_vars

\* ------------------------------------------- comparator on arbitrary arrays
\* element values, in units of 1e-11
Values == {NaN, -100, 0, 1, 10, 100, 105}

\* the one-dimensional variables of at most MaxLen elements
FlatArrays ==
  UNION {{[dims |-> <<"lev">>, shape |-> <<n>>, vals |-> v] : v \in [1..n -> Values]}
         : n \in 1..MaxLen}

\* the two end-to-end scenarios of four elements
ScenarioPairs ==
  {<<[dims |-> <<"lev">>, shape |-> <<4>>, vals |-> <<100, 100, 100, 100>>],
     [dims |-> <<"lev">>, shape |-> <<4>>, vals |-> <<100, 100, 100, 105>>]>>,
   <<[dims |-> <<"lev">>, shape |-> <<4>>, vals |-> <<100, 100, 100, 100>>],
     [dims |-> <<"lev">>, shape |-> <<4>>, vals |-> <<100, 100, 100, 100>>]>>}

\* the reference values and the offsets of the constant pairs
ConstantRefs == {100000, 100001, -100001, 1000000}

ConstantOffsets == {-10, -1, 0, 1, 9, 10}

\* a reference that is r everywhere against a test that is r + d everywhere
ConstantPairs ==
  {<<[dims |-> <<"lev">>, shape |-> <<n>>, vals |-> [i \in 1..n |-> x[1]]],
     [dims |-> <<"lev">>, shape |-> <<n>>, vals |-> [i \in 1..n |-> x[1] + x[2]]]>>
     : <<n, x>> \in (1..MaxLen) \X (ConstantRefs \X ConstantOffsets)}

\* a run directory whose only file d1 holds the variable var under the name
DirectoryOf(name, var) ==
  [exists   |-> TRUE,
   nc_files |-> << [stem |-> "d1", parses |-> TRUE, ds |-> [v \in {name} |-> var]] >>]

\* --threshold: absent, 0.0, 0.01, 0.025, -0.01
CompareThresholdArgs ==
  {None, Frac(0, 1), Frac(1, 100), Frac(1, 40), Frac(-1, 100)}

\* main after line 574, for a run over one species in one file per side
InitCompare ==
  /\ pc = "thresholds"
  /\ args \in [species : {<<O3>>}, time_step : {-1}, threshold : CompareThresholdArgs]
  /\ \E p \in (FlatArrays \X FlatArrays) \cup ScenarioPairs \cup ConstantPairs :
        fs = [reference |-> DirectoryOf(O3, p[1]), test |-> DirectoryOf(O3, p[2])]
  /\ species_to_validate = args.species
  /\ reference_datasets = load_netcdf_outputs(fs.reference)
  /\ test_datasets = load_netcdf_outputs(fs.test)
  /\ reference_data =
       get_species_data(reference_datasets, species_to_validate, args.time_step)
  /\ test_data = get_species_data(test_datasets, species_to_validate, args.time_step)
  /\ thresholds = None
  /\ comparison_results = << >>
  /\ plots = {}
  /\ report = None
  /\ pass_count = 0
  /\ total_count = 0
  /\ error = ""
  /\ exit_code = -1
  /\ validation_thresholds = VALIDATION_THRESHOLDS
  /\ OthersIdle

NextCompare ==
  \/ SetThresholds
  \/ CompareSpecies

SpecCompare == InitCompare /\ [][NextCompare]_vars

\* ------------------------------------------ resolver on arbitrary name sets
ResolveNames ==
  {O3, <<"SPC", "O3">>, <<"SPC", "SO4">>, <<"SPC", "SO4", "s">>,
   <<"SpeciesConc", "SO4", "s">>, <<"OLDSPC", "O3">>, <<"SPC">>}

ResolveDatasets ==
  {[v \in S |-> IF v = <<"SPC", "SO4">> THEN VDiff ELSE VConst]
     : S \in SUBSET ResolveNames}

\* --species with one key: SpeciesConc_O3, SpeciesConc_SO4_s, O3
ResolveKeys == {O3, <<"SpeciesConc", "SO4", "s">>, <<"O3">>}

\* main after line 569, both sides holding the same single dataset
InitResolve ==
  /\ pc = "extract"
  /\ args \in [species : {<<k>> : k \in ResolveKeys}, time_step : {-1},
               threshold : {None}]
  /\ \E ds \in ResolveDatasets :
        LET dir == [exists   |-> TRUE,
                    nc_files |-> << [stem |-> "d1", parses |-> TRUE, ds |-> ds] >>]
        IN  fs = [reference |-> dir, test |-> dir]
  /\ species_to_validate = args.species
  /\ reference_datasets = load_netcdf_outputs(fs.reference)
  /\ test_datasets = load_netcdf_outputs(fs.test)
  /\ reference_data = << >>
  /\ test_data = << >>
  /\ thresholds = None
  /\ comparison_results = << >>
  /\ plots = {}
  /\ report = None
  /\ pass_count = 0
  /\ total_count = 0
  /\ error = ""
  /\ exit_code = -1
  /\ validation_thresholds = VALIDATION_THRESHOLDS
  /\ OthersIdle

\* the run from the extraction to the exit
NextResolve ==
  \/ ExtractSpecies
  \/ SetThresholds
  \/ CompareSpecies
  \/ GeneratePlots
  \/ CreateReport
  \/ CountResults
  \/ Exit

SpecResolve == InitResolve /\ [][NextResolve]_vars

\* ------------------------------------------------------ observed quantities
\* The statistics of a pair, recomputed from the extracted slices.
RECURSIVE SetSum(_, _)
SetSum(f, S) ==
  IF S = {} THEN 0
  ELSE LET x == CHOOSE y \in S : TRUE IN f[x] + SetSum(f, S \ {x})

RefVals(s, d) == reference_data[s][d].vals

TestVals(s, d) == test_data[s][d].vals

\* the positions where both sides are numbers
JointValid(s, d) ==
  {i \in DOMAIN RefVals(s, d) : RefVals(s, d)[i] # NaN /\ TestVals(s, d)[i] # NaN}

NValid(s, d) == Cardinality(JointValid(s, d))

\* n * mean_ref
RefSum(s, d) == SetSum(RefVals(s, d), JointValid(s, d))

\* n * mean_test
TestSum(s, d) == SetSum(TestVals(s, d), JointValid(s, d))

ElemDiff(s, d) == [i \in JointValid(s, d) |-> Abs(TestVals(s, d)[i] - RefVals(s, d)[i])]

\* n * mean_abs_diff
AbsDiffSum(s, d) == SetSum(ElemDiff(s, d), JointValid(s, d))

\* n * rmse^2
SqDiffSum(s, d) ==
  SetSum([i \in JointValid(s, d) |-> ElemDiff(s, d)[i] * ElemDiff(s, d)[i]],
         JointValid(s, d))

MaxAbsDiff(s, d) ==
  CHOOSE m \in Range(ElemDiff(s, d)) : \A k \in Range(ElemDiff(s, d)) : k <= m

\* compare_species has returned
Compared == pc \in {"plots", "report", "count", "exit", "done"}

Verdict(p) == comparison_results[p[1]][p[2]].passes_validation

\* rmse / |mean_ref| < thresholds.rmse
RmseBelow(s, d) ==
  SqrtQuotLess(SqDiffSum(s, d) * NValid(s, d), Abs(RefSum(s, d)), thresholds.rmse)

\* max_abs_diff / |mean_ref| < thresholds.max_abs_diff
MaxDiffBelow(s, d) ==
  MaxAbsDiff(s, d) * NValid(s, d) * thresholds.max_abs_diff.den
    < thresholds.max_abs_diff.num * Abs(RefSum(s, d))

\* mean_abs_diff / |mean_ref| < thresholds.mean
MeanAbsDiffBelow(s, d) ==
  AbsDiffSum(s, d) * thresholds.mean.den < thresholds.mean.num * Abs(RefSum(s, d))

\* |mean_ref - mean_test| / |mean_ref| < thresholds.mean
DiffOfMeansBelow(s, d) ==
  Abs(RefSum(s, d) - TestSum(s, d)) * thresholds.mean.den
    < thresholds.mean.num * Abs(RefSum(s, d))

\* ------------------------------------------------------------------ claims
\* C1 as stated: with a nonzero reference mean a record passes exactly when
\* mean_abs_diff/|mean_ref|, rmse/|mean_ref| and max_abs_diff/|mean_ref| are
\* each strictly below their thresholds.
C1_MeanAbsDiffVerdict ==
  Compared =>
    \A p \in Records(comparison_results) :
       RefSum(p[1], p[2]) # 0 =>
         (Verdict(p) <=> /\ MeanAbsDiffBelow(p[1], p[2])
                         /\ RmseBelow(p[1], p[2])
                         /\ MaxDiffBelow(p[1], p[2]))

\* C1 amended: with a nonzero reference mean a record passes exactly when
\* |mean_ref - mean_test|/|mean_ref|, rmse/|mean_ref| and
\* max_abs_diff/|mean_ref| are each strictly below their thresholds.
C1_DiffOfMeansVerdict ==
  Compared =>
    \A p \in Records(comparison_results) :
       RefSum(p[1], p[2]) # 0 =>
         (Verdict(p) <=> /\ DiffOfMeansBelow(p[1], p[2])
                         /\ RmseBelow(p[1], p[2])
                         /\ MaxDiffBelow(p[1], p[2]))

\* a passing record whose elementwise differences cancel in the means and
\* whose mean absolute difference is not below the mean threshold
C1_Witness ==
  /\ Compared
  /\ \E p \in Records(comparison_results) :
        /\ RefSum(p[1], p[2]) # 0
        /\ Verdict(p)
        /\ AbsDiffSum(p[1], p[2]) > Abs(RefSum(p[1], p[2]) - TestSum(p[1], p[2]))
        /\ ~MeanAbsDiffBelow(p[1], p[2])

\* C2: with a nonzero reference mean, a record in which one of the three
\* checked quantities is not below its threshold has the verdict fail.
C2_Conjunction ==
  Compared =>
    \A p \in Records(comparison_results) :
       (/\ RefSum(p[1], p[2]) # 0
        /\ \/ ~DiffOfMeansBelow(p[1], p[2])
           \/ ~RmseBelow(p[1], p[2])
           \/ ~MaxDiffBelow(p[1], p[2]))
       => ~Verdict(p)

\* reference [100,100,100,100] against test [100,100,100,105] under the
\* default thresholds: the record fails
C2_Witness ==
  /\ Compared
  /\ thresholds = VALIDATION_THRESHOLDS
  /\ \E p \in Records(comparison_results) :
        /\ RefVals(p[1], p[2]) = <<100, 100, 100, 100>>
        /\ TestVals(p[1], p[2]) = <<100, 100, 100, 105>>
        /\ ~MaxDiffBelow(p[1], p[2])
        /\ ~Verdict(p)

\* C3: with a reference mean of exactly zero a record passes exactly when
\* |mean_test| < 1e-10, whatever the thresholds are.
C3_ZeroMeanBranch ==
  Compared =>
    \A p \in Records(comparison_results) :
       RefSum(p[1], p[2]) = 0 =>
         (Verdict(p) <=> Abs(TestSum(p[1], p[2])) < 10 * NValid(p[1], p[2]))

\* reference mean 0 and test mean 1e-11: the record passes although no
\* relative difference can be below the negative thresholds in force
C3_Witness ==
  /\ Compared
  /\ thresholds.mean.num < 0
  /\ \E p \in Records(comparison_results) :
        /\ RefSum(p[1], p[2]) = 0
        /\ TestSum(p[1], p[2]) = NValid(p[1], p[2])
        /\ Verdict(p)

\* load_netcdf_outputs gave nothing usable: None or an empty mapping
NoDatasets(datasets) == datasets = None \/ DOMAIN datasets = {}

BothLoaded == ~NoDatasets(reference_datasets) /\ ~NoDatasets(test_datasets)

\* the file identifiers of either side
AllStems ==
  UNION ({DOMAIN reference_data[s] : s \in DOMAIN reference_data}
         \cup {DOMAIN test_data[s] : s \in DOMAIN test_data})

\* the species extracted from the file identifier on both sides
OnBothSides(s, d) ==
  /\ s \in DOMAIN reference_data /\ d \in DOMAIN reference_data[s]
  /\ s \in DOMAIN test_data /\ d \in DOMAIN test_data[s]

SameShape(s, d) == reference_data[s][d].shape = test_data[s][d].shape

\* the requested pairs that meet every precondition of the comparator
Eligible ==
  {p \in Range(species_to_validate) \X AllStems :
     /\ OnBothSides(p[1], p[2])
     /\ SameShape(p[1], p[2])
     /\ JointValid(p[1], p[2]) # {}}

\* C4: a record exists only for a pair that was extracted on both sides
\* with identical shapes.
C4_RecordOnlyForMatchingPair ==
  Compared =>
    \A p \in Records(comparison_results) :
       OnBothSides(p[1], p[2]) /\ SameShape(p[1], p[2])

\* records exist, next to a pair present on both sides with different shapes
\* and a pair present on one side only, neither of which has a record
C4_Witness ==
  /\ Compared
  /\ Records(comparison_results) # {}
  /\ \E p \in Range(species_to_validate) \X AllStems :
        /\ OnBothSides(p[1], p[2])
        /\ ~SameShape(p[1], p[2])
        /\ p \notin Records(comparison_results)
  /\ \E p \in Range(species_to_validate) \X AllStems :
        /\ p[1] \in DOMAIN reference_data /\ p[2] \in DOMAIN reference_data[p[1]]
        /\ ~OnBothSides(p[1], p[2])
        /\ p \notin Records(comparison_results)

\* C5: when both sides loaded a dataset and the slices were extracted, the
\* run ends with the reports written and without an uncaught exception,
\* whatever pairs are missing, mismatched in shape or without valid data.
C5_PairErrorsNeverAbort ==
  (pc = "done" /\ BothLoaded /\ error # "IndexError")
    => (error = "" /\ report # None)

\* C6: the process exits with 0 if every record passed and with 1 if some
\* record failed; a load failure exits with 1.
C6_ExitStatus ==
  pc = "done" =>
    IF ~BothLoaded THEN exit_code = 1
    ELSE error # "IndexError" =>
           exit_code = (IF \E p \in Records(comparison_results) : ~Verdict(p)
                        THEN 1 ELSE 0)

\* C7: when a side loaded no dataset the run is never past the load check
\* except as exited with status 1, with no slice extracted, no record, no
\* plot and no report.
C7_LoadFailureAborts ==
  (/\ pc \notin {"load_reference", "load_test", "check_loaded"}
   /\ (NoDatasets(reference_datasets) \/ NoDatasets(test_datasets)))
  => /\ pc = "done"
     /\ exit_code = 1
     /\ DOMAIN reference_data = {}
     /\ DOMAIN test_data = {}
     /\ DOMAIN comparison_results = {}
     /\ plots = {}
     /\ report = None

\* the reference directory holds files, none of which parses; the test side
\* loaded; the run has exited with 1
C7_Witness ==
  /\ pc = "done"
  /\ exit_code = 1
  /\ fs.reference.nc_files # << >>
  /\ reference_datasets # None
  /\ DOMAIN reference_datasets = {}
  /\ ~NoDatasets(test_datasets)

\* C8: a supplied override t gives the thresholds {t, 10t, 100t}; the
\* default triple is used only when no override is supplied.
C8_OverrideScaling ==
  thresholds # None =>
    IF args.threshold # None
    THEN /\ FracEq(thresholds.mean, args.threshold)
         /\ FracEq(thresholds.rmse, Frac(10 * args.threshold.num, args.threshold.den))
         /\ FracEq(thresholds.max_abs_diff,
                   Frac(100 * args.threshold.num, args.threshold.den))
    ELSE thresholds = VALIDATION_THRESHOLDS

ClaimedVarName(ds, key) ==
  IF \E name \in DOMAIN ds : ContainsSPC_(name)
  THEN <<"SPC">> \o Tail(key)
  ELSE key

\* the slice of the key was stored for the dataset, from the claimed variable
ResolvedAsClaimed(datasets, data, d, key) ==
  LET v == ClaimedVarName(datasets[d], key)
  IN  IF v \in DOMAIN datasets[d]
      THEN key \in DOMAIN data /\ d \in DOMAIN data[key]
           /\ data[key][d] = datasets[d][v]
      ELSE ~(key \in DOMAIN data /\ d \in DOMAIN data[key])

\* C10: in a dataset with a variable name containing SPC_ the key
\* SpeciesConc_<NAME> resolves to SPC_<NAME>, <NAME> being everything after
\* the prefix; in any other dataset it resolves to SpeciesConc_<NAME>.
C10_Resolution ==
  pc = "thresholds" =>
    \A i \in DOMAIN species_to_validate :
       LET key == species_to_validate[i]
       IN  (Len(key) >= 2 /\ key[1] = "SpeciesConc") =>
             /\ \A d \in DOMAIN reference_datasets :
                   ResolvedAsClaimed(reference_datasets, reference_data, d, key)
             /\ \A d \in DOMAIN test_datasets :
                   ResolvedAsClaimed(test_datasets, test_data, d, key)

\* get_species_data has returned on both sides
Extracted == pc \notin {"load_reference", "load_test", "check_loaded", "extract"}

\* the (species, dataset) pairs that have a row in the tabular summary
ReportRows ==
  IF report = None THEN {}
  ELSE {<<report.summary_rows[i].Species, report.summary_rows[i].Dataset>>
          : i \in DOMAIN report.summary_rows}

\* the key has a slice for the file identifier in the extracted data
HasSlice(data, key, d) == key \in DOMAIN data /\ d \in DOMAIN data[key]

\* C11: when the variable a key SpeciesConc_<NAME> resolves to (SPC_<NAME> in
\* a restart dataset) is absent from a dataset of a side, no slice is stored
\* for the pair on that side and the pair has no record and no report row.
C11_ResolutionMiss ==
  (Extracted /\ BothLoaded /\ error # "IndexError") =>
    \A i \in DOMAIN species_to_validate :
       LET key == species_to_validate[i]
       IN  (Len(key) >= 2 /\ key[1] = "SpeciesConc") =>
             /\ \A d \in DOMAIN reference_datasets :
                   ClaimedVarName(reference_datasets[d], key)
                       \notin DOMAIN reference_datasets[d]
                   => /\ ~HasSlice(reference_data, key, d)
                      /\ <<key, d>> \notin Records(comparison_results)
                      /\ <<key, d>> \notin ReportRows
             /\ \A d \in DOMAIN test_datasets :
                   ClaimedVarName(test_datasets[d], key)
                       \notin DOMAIN test_datasets[d]
                   => /\ ~HasSlice(test_data, key, d)
                      /\ <<key, d>> \notin Records(comparison_results)
                      /\ <<key, d>> \notin ReportRows

\* -------------------------------------------- slicing on arbitrary time axes
\* longest time axis drawn for the slicing specification
MaxSteps == 2

\* the content of one time step
StepVals == {<<100, 100>>, <<100, 105>>, <<105, 100>>}

RECURSIVE Concat(_)
Concat(ss) == IF ss = << >> THEN << >> ELSE Head(ss) \o Concat(Tail(ss))

\* the variables with a leading time dimension of 1..MaxSteps steps
TimeVars ==
  UNION {{[dims |-> <<"time", "lev">>, shape |-> <<T, 2>>, vals |-> Concat(steps)]
            : steps \in [1..T -> StepVals]}
         : T \in 1..MaxSteps}

\* --time-step: absent, or an integer
TimeStepOptions ==
  {None} \cup {[value |-> i] : i \in (-(MaxSteps + 2))..(MaxSteps + 1)}

\* line 66: type=int, default=-1
ParsedTimeStep(option) == IF option = None THEN -1 ELSE option.value

\* main after line 569, both sides holding one dataset with the variable O3
InitSlice ==
  /\ pc = "extract"
  /\ args \in [species : {<<O3>>},
               time_step : {ParsedTimeStep(o) : o \in TimeStepOptions},
               threshold : {None}]
  /\ \E var \in TimeVars \cup {VConst, VDiff, VGrid} :
        fs = [reference |-> DirectoryOf(O3, var), test |-> DirectoryOf(O3, var)]
  /\ species_to_validate = args.species
  /\ reference_datasets = load_netcdf_outputs(fs.reference)
  /\ test_datasets = load_netcdf_outputs(fs.test)
  /\ reference_data = << >>
  /\ test_data = << >>
  /\ thresholds = None
  /\ comparison_results = << >>
  /\ plots = {}
  /\ report = None
  /\ pass_count = 0
  /\ total_count = 0
  /\ error = ""
  /\ exit_code = -1
  /\ validation_thresholds = VALIDATION_THRESHOLDS
  /\ OthersIdle

\* the run from the extraction to the exit
NextSlice ==
  \/ ExtractSpecies
  \/ SetThresholds
  \/ CompareSpecies
  \/ GeneratePlots
  \/ CreateReport
  \/ CountResults
  \/ Exit

SpecSlice == InitSlice /\ [][NextSlice]_vars

\* the variable has a time dimension
OnTimeAxis(var) == \E i \in DOMAIN var.dims : var.dims[i] = "time"

\* the number of time steps of a variable whose first dimension is time
TimeLen(var) == var.shape[1]

\* the zero-based time step k of the variable, the time dimension removed
StepOf(var, k) ==
  LET rest == Len(var.vals) \div TimeLen(var)
  IN  [dims  |-> Tail(var.dims),
       shape |-> Tail(var.shape),
       vals  |-> [j \in 1..rest |-> var.vals[k * rest + j]]]

\* the (dataset, key) pairs of a side whose key resolves to a variable
Resolved(datasets) ==
  {p \in (DOMAIN datasets) \X Range(species_to_validate) :
     /\ Len(p[2]) >= 2
     /\ ClaimedVarName(datasets[p[1]], p[2]) \in DOMAIN datasets[p[1]]}

SourceVar(datasets, p) == datasets[p[1]][ClaimedVarName(datasets[p[1]], p[2])]

\* every slice of the side is the one Selected(var) tells
SlicesAre(datasets, data, Selected(_)) ==
  \A p \in Resolved(datasets) :
     /\ HasSlice(data, p[2], p[1])
     /\ Selected(SourceVar(datasets, p)) = data[p[2]][p[1]]

\* C12: on a time axis the index -1 selects the last step and any
\* other integer i the zero-based step i, the time dimension removed; a
\* variable without time dimension is returned as it is.
C12_ZeroBasedStep ==
  (Extracted /\ BothLoaded /\ error = "") =>
    LET Selected(var) ==
          IF ~OnTimeAxis(var) THEN var
          ELSE IF args.time_step = -1 THEN StepOf(var, TimeLen(var) - 1)
          ELSE IF args.time_step \in 0..(TimeLen(var) - 1)
               THEN StepOf(var, args.time_step)
               ELSE None
    IN  /\ SlicesAre(reference_datasets, reference_data, Selected)
        /\ SlicesAre(test_datasets, test_data, Selected)

\* what the extraction does: as above for -1 and for i in 0..T-1, and an
\* integer i in -T..-2 selects the step T+i, counted from the end.
PythonIndexedStep ==
  (Extracted /\ BothLoaded /\ error = "") =>
    LET Selected(var) ==
          IF ~OnTimeAxis(var) THEN var
          ELSE IF args.time_step = -1 THEN StepOf(var, TimeLen(var) - 1)
          ELSE IF args.time_step \in 0..(TimeLen(var) - 1)
               THEN StepOf(var, args.time_step)
          ELSE IF args.time_step \in (-TimeLen(var))..(-2)
               THEN StepOf(var, TimeLen(var) + args.time_step)
               ELSE None
    IN  /\ SlicesAre(reference_datasets, reference_data, Selected)
        /\ SlicesAre(test_datasets, test_data, Selected)

\* some requested variable of a side has a time axis the index is outside of
\* the set Allowed(T)
IndexOutside(datasets, Allowed(_)) ==
  \E p \in Resolved(datasets) :
     /\ OnTimeAxis(SourceVar(datasets, p))
     /\ args.time_step \notin Allowed(TimeLen(SourceVar(datasets, p)))

\* the extraction ended in the out-of-range failure, no slice stored
OutOfRangeFailure ==
  /\ pc = "done"
  /\ error = "IndexError"
  /\ exit_code = 1
  /\ DOMAIN reference_data = {}
  /\ DOMAIN test_data = {}

\* C13: an index other than -1 that is not in 0..T-1 gives no
\* slice but the out-of-range failure, without wrap-around.
C13_NoWrapAround ==
  LET Allowed(T) == {-1} \cup 0..(T - 1)
  IN  (Extracted /\ BothLoaded
       /\ (\/ IndexOutside(reference_datasets, Allowed)
           \/ IndexOutside(test_datasets, Allowed)))
      => OutOfRangeFailure

\* what the extraction does: an index that is not in -T..T-1 gives no slice
\* but the out-of-range failure; the indices -T..-2 count from the end.
OutOfRangeFails ==
  LET Allowed(T) == (-T)..(T - 1)
  IN  (Extracted /\ BothLoaded
       /\ (\/ IndexOutside(reference_datasets, Allowed)
           \/ IndexOutside(test_datasets, Allowed)))
      => OutOfRangeFailure


\* the pairs that reach line 180 and have no position valid on both sides
NoValidPairs ==
  {p \in Range(species_to_validate) \X AllStems :
     /\ OnBothSides(p[1], p[2])
     /\ SameShape(p[1], p[2])
     /\ \A i \in DOMAIN RefVals(p[1], p[2]) :
           RefVals(p[1], p[2])[i] = NaN \/ TestVals(p[1], p[2])[i] = NaN}

\* C14: a pair with no position valid on both sides is abandoned without a
\* record, and every other pair that can be compared still has its record.
C14_NoValidPairAbandoned ==
  (Compared /\ NoValidPairs # {}) =>
    /\ \A p \in NoValidPairs :
          p[1] \notin DOMAIN comparison_results
          \/ p[2] \notin DOMAIN comparison_results[p[1]]
    /\ \A q \in Eligible :
          /\ q[1] \in DOMAIN comparison_results
          /\ q[2] \in DOMAIN comparison_results[q[1]]
          /\ comparison_results[q[1]][q[2]].n = NValid(q[1], q[2])

\* a pair was abandoned and another pair of the same run has its record
C14_Witness ==
  /\ Compared
  /\ \E p \in NoValidPairs : p \notin Records(comparison_results)
  /\ \E q \in Eligible : q \in Records(comparison_results)

\* the record of a pair
RecordOf(p) == comparison_results[p[1]][p[2]]

\* the array with the value at position i replaced by v
WithValue(array, i, v) == [array EXCEPT !.vals[i] = v]

\* C15: the statistics of a record are those of the positions where both
\* values are numbers, and replacing the value that stands against a NaN
\* changes neither a statistic nor the verdict.
C15_JointlyValidOnly ==
  Compared =>
    \A p \in Records(comparison_results) :
       LET s == p[1]
           d == p[2]
       IN  /\ RecordOf(p).n = NValid(s, d)
           /\ RecordOf(p).sum_ref = RefSum(s, d)
           /\ RecordOf(p).sum_test = TestSum(s, d)
           /\ RecordOf(p).sum_abs_diff = AbsDiffSum(s, d)
           /\ RecordOf(p).max_abs_diff = MaxAbsDiff(s, d)
           /\ RecordOf(p).sum_sq_diff = SqDiffSum(s, d)
           /\ \A i \in (DOMAIN RefVals(s, d)) \ JointValid(s, d) :
                 \A v \in Values :
                    /\ TestVals(s, d)[i] = NaN =>
                         CompareArrays(WithValue(reference_data[s][d], i, v),
                                       test_data[s][d], thresholds) = RecordOf(p)
                    /\ RefVals(s, d)[i] = NaN =>
                         CompareArrays(reference_data[s][d],
                                       WithValue(test_data[s][d], i, v),
                                       thresholds) = RecordOf(p)

\* a record of a pair with a number standing against a NaN, next to a
\* position where the two sides differ
C15_Witness ==
  /\ Compared
  /\ \E p \in Records(comparison_results) :
        /\ \E i \in DOMAIN RefVals(p[1], p[2]) :
              RefVals(p[1], p[2])[i] = NaN /\ TestVals(p[1], p[2])[i] \notin {NaN, 0}
        /\ RecordOf(p).n = 1
        /\ RecordOf(p).sum_abs_diff > 0

\* the relative difference of a jointly valid position, as num / den
RelDiffAt(s, d, i) ==
  IF Abs(RefVals(s, d)[i]) <= ZeroTol
  THEN Frac(0, 1)
  ELSE Frac(ElemDiff(s, d)[i], Abs(RefVals(s, d)[i]))

RECURSIVE SetLCM(_, _)
SetLCM(f, S) ==
  IF S = {} THEN 1
  ELSE LET x == CHOOSE y \in S : TRUE
           l == SetLCM(f, S \ {x})
       IN  (l \div GCD(l, f[x].den)) * f[x].den

\* C16: the relative difference of a valid position is 0 where
\* |ref| <= 1e-10 and |test - ref| / |ref| elsewhere; mean_rel_diff and
\* max_rel_diff are the mean and the maximum of these.
C16_RelDiffGuard ==
  Compared =>
    \A p \in Records(comparison_results) :
       LET s   == p[1]
           d   == p[2]
           rel == [i \in JointValid(s, d) |-> RelDiffAt(s, d, i)]
           D   == SetLCM(rel, JointValid(s, d))
           sum == SetSum([i \in JointValid(s, d) |-> rel[i].num * (D \div rel[i].den)],
                         JointValid(s, d))
       IN  /\ FracEq(RecordOf(p).sum_rel_diff, Frac(sum, D))
           /\ \E i \in JointValid(s, d) : FracEq(RecordOf(p).max_rel_diff, rel[i])
           /\ \A i \in JointValid(s, d) :
                 rel[i].num * RecordOf(p).max_rel_diff.den
                   <= RecordOf(p).max_rel_diff.num * rel[i].den

\* a record over a position with |ref| = 1e-10 where the sides differ and a
\* position with a larger reference where the sides differ
C16_Witness ==
  /\ Compared
  /\ \E p \in Records(comparison_results) :
        /\ \E i \in JointValid(p[1], p[2]) :
              /\ Abs(RefVals(p[1], p[2])[i]) = ZeroTol
              /\ TestVals(p[1], p[2])[i] # RefVals(p[1], p[2])[i]
        /\ RecordOf(p).n = 2
        /\ RecordOf(p).sum_rel_diff.num > 0

\* the reference is r everywhere and the test is t everywhere
ConstantPair(s, d, r, t) ==
  /\ \A i \in DOMAIN RefVals(s, d) : RefVals(s, d)[i] = r
  /\ \A i \in DOMAIN TestVals(s, d) : TestVals(s, d)[i] = t

\* C18: for a reference constant r # 0 and a test constant r + d,
\* mean_abs_diff, rmse and max_abs_diff are |d|, each check compares
\* |d| / |r| with its threshold, and under the default thresholds the
\* verdict is pass exactly when |d| / |r| < 1e-5.
C18_ConstantOffset ==
  Compared =>
    \A p \in Records(comparison_results) :
       \A r \in Range(RefVals(p[1], p[2])) \ {NaN, 0} :
          \A t \in Range(TestVals(p[1], p[2])) \ {NaN} :
             ConstantPair(p[1], p[2], r, t) =>
               LET n       == RecordOf(p).n
                   absd    == Abs(t - r)
                   Below(x) == absd * x.den < x.num * Abs(r)
               IN  /\ RecordOf(p).sum_abs_diff = n * absd
                   /\ RecordOf(p).max_abs_diff = absd
                   /\ RecordOf(p).sum_sq_diff = n * absd * absd
                   /\ Verdict(p) = (/\ Below(thresholds.mean)
                                    /\ Below(thresholds.rmse)
                                    /\ Below(thresholds.max_abs_diff))
                   /\ thresholds = VALIDATION_THRESHOLDS =>
                        Verdict(p) = (absd * 100000 < Abs(r))

\* the ratio 1e-6 (as 100 against 100.0001) passes under the defaults
C18_Witness ==
  /\ Compared
  /\ thresholds = VALIDATION_THRESHOLDS
  /\ \E p \in Records(comparison_results) :
        /\ ConstantPair(p[1], p[2], 1000000, 1000001)
        /\ Verdict(p)

\* the rows of the written report that stand for the pair p
RowsOf(p) ==
  {i \in DOMAIN report.summary_rows :
     /\ report.summary_rows[i].Species = p[1]
     /\ report.summary_rows[i].Dataset = p[2]}

\* the run went through line 613: both sides loaded, nothing raised, status 1
ExitedForFailure ==
  /\ pc = "done"
  /\ BothLoaded
  /\ error = ""
  /\ exit_code = 1

\* C17: a run that exits with status 1 for a failed record holds that
\* record with verdict fail, and the report, written before the exit, shows
\* every failed record as failed.
C17_FailureIsReported ==
  ExitedForFailure =>
    /\ report # None
    /\ \E p \in Records(comparison_results) : ~Verdict(p)
    /\ report.failed_tests >= 1
    /\ \A p \in Records(comparison_results) :
          ~Verdict(p) =>
             \E i \in RowsOf(p) : ~report.summary_rows[i].Passes

\* a run that ended with status 1 with a failed and a passed record
C17_Witness ==
  /\ ExitedForFailure
  /\ \E p \in Records(comparison_results) : ~Verdict(p)
  /\ \E p \in Records(comparison_results) : Verdict(p)

\* C20: the summary has exactly one row per record, carrying its verdict;
\* total, passed and failed count the records, the passed records and the
\* rest; main's tally for the exit decision gives the same two counts.
C20_ReportConsistent ==
  report # None =>
    /\ Len(report.summary_rows) = Cardinality(Records(comparison_results))
    /\ \A i \in DOMAIN report.summary_rows :
          <<report.summary_rows[i].Species, report.summary_rows[i].Dataset>>
            \in Records(comparison_results)
    /\ \A p \in Records(comparison_results) :
          /\ Cardinality(RowsOf(p)) = 1
          /\ \A i \in RowsOf(p) : report.summary_rows[i].Passes = Verdict(p)
    /\ report.total_tests = Cardinality(Records(comparison_results))
    /\ report.passed_tests =
         Cardinality({p \in Records(comparison_results) : Verdict(p)})
    /\ report.failed_tests = report.total_tests - report.passed_tests
    /\ pc \in {"exit", "done"} =>
         /\ total_count = report.total_tests
         /\ pass_count = report.passed_tests

\* a finished run whose report counts two records of one species, one
\* passed and one failed
C20_Witness ==
  /\ pc = "done"
  /\ report # None
  /\ report.total_tests = 2
  /\ report.passed_tests = 1
  /\ report.failed_tests = 1
  /\ Cardinality(DOMAIN comparison_results) = 1
  /\ total_count = 2

\* ------------------------------------------------- loading of directories
\* most .nc files of a directory drawn for the loading specification
MaxFiles == 2

\* the contents a file that parses may have
LoadMenu == {[v \in {O3} |-> VConst], [v \in {O3} |-> VDiff]}

\* a .nc file of a run directory; with the recursive glob of line 89 two
\* files of different subdirectories may have the same stem
LoadableFiles ==
  {[stem |-> stem, parses |-> TRUE, ds |-> ds] : stem \in Range(FileStems), ds \in LoadMenu}
  \cup {[stem |-> stem, parses |-> FALSE, ds |-> << >>] : stem \in Range(FileStems)}

\* a missing directory, and the directories of up to MaxFiles .nc files
LoadDirectories ==
  {[exists |-> FALSE, nc_files |-> << >>]}
  \cup UNION {{[exists |-> TRUE, nc_files |-> l] : l \in [1..n -> LoadableFiles]}
              : n \in 0..MaxFiles}

\* main at line 560 over the two directories
InitLoad ==
  /\ pc = "load_reference"
  /\ args = [species |-> <<O3>>, time_step |-> -1, threshold |-> None]
  /\ fs \in [reference : LoadDirectories, test : LoadDirectories]
  /\ species_to_validate = args.species
  /\ reference_datasets = None
  /\ test_datasets = None
  /\ reference_data = << >>
  /\ test_data = << >>
  /\ thresholds = None
  /\ comparison_results = << >>
  /\ plots = {}
  /\ report = None
  /\ pass_count = 0
  /\ total_count = 0
  /\ error = ""
  /\ exit_code = -1
  /\ validation_thresholds = VALIDATION_THRESHOLDS
  /\ OthersIdle

\* lines 560-569
NextLoad ==
  \/ LoadReference
  \/ LoadTest
  \/ CheckLoaded

SpecLoad == InitLoad /\ [][NextLoad]_vars

\* the positions of the files of the directory that parse
Parsed(directory) == {i \in DOMAIN directory.nc_files : directory.nc_files[i].parses}

\* the mapping has one entry per parsed file, under the file's stem, holding
\* the file's content; it is the empty mapping when no file parsed
OneEntryPerParsedFile(directory, datasets) ==
  /\ datasets # None
  /\ Cardinality(DOMAIN datasets) = Cardinality(Parsed(directory))
  /\ \A i \in Parsed(directory) :
        /\ directory.nc_files[i].stem \in DOMAIN datasets
        /\ datasets[directory.nc_files[i].stem] = directory.nc_files[i].ds

\* the caller ends the run with status 1 when a side loaded nothing
NothingLoadedIsFatal ==
  (/\ pc \notin {"load_reference", "load_test", "check_loaded"}
   /\ (Parsed(fs.reference) = {} \/ Parsed(fs.test) = {}))
  => (pc = "done" /\ exit_code = 1)

\* C19: a file that fails to parse is skipped and the others load; the
\* mapping has exactly one entry, under its stem, for each file that
\* parsed; it is the empty mapping when nothing was loaded, which is fatal.
C19_OneEntryPerParsedFile ==
  /\ pc # "load_reference" => OneEntryPerParsedFile(fs.reference, reference_datasets)
  /\ pc \notin {"load_reference", "load_test"} =>
       OneEntryPerParsedFile(fs.test, test_datasets)
  /\ NothingLoadedIsFatal

\* the last parsed file of the directory that has the stem
LastWith(directory, stem) ==
  CHOOSE i \in Parsed(directory) :
     /\ directory.nc_files[i].stem = stem
     /\ \A j \in Parsed(directory) : directory.nc_files[j].stem = stem => j <= i

\* what the loader does: None for a missing directory and for one without
\* .nc files; otherwise one entry per stem of a parsed file, holding the
\* last parsed file of that stem, and no entry for a file that fails to parse
LoaderResult(directory, datasets) ==
  IF ~directory.exists \/ directory.nc_files = << >>
  THEN datasets = None
  ELSE /\ datasets # None
       /\ DOMAIN datasets = {directory.nc_files[i].stem : i \in Parsed(directory)}
       /\ \A stem \in DOMAIN datasets :
             datasets[stem] = directory.nc_files[LastWith(directory, stem)].ds

LoaderBehaviour ==
  /\ pc # "load_reference" => LoaderResult(fs.reference, reference_datasets)
  /\ pc \notin {"load_reference", "load_test"} => LoaderResult(fs.test, test_datasets)
  /\ NothingLoadedIsFatal

\* C21: compare_species, generate_comparison_plots and
\* create_validation_report leave the slice mappings and their values as
\* they are, and no step changes the default threshold triple.
C21_ReadOnly ==
  [][/\ pc \in {"compare", "plots", "report"} =>
          /\ reference_data' = reference_data
          /\ test_data' = test_data
     /\ validation_thresholds' = validation_thresholds
     /\ validation_thresholds' = VALIDATION_THRESHOLDS]_vars

\* a run under an override threshold that compared, plotted and reported
\* a pair with a NaN in it
C21_Witness ==
  /\ pc = "done"
  /\ report # None
  /\ ThresholdGiven(args.threshold)
  /\ validation_thresholds = VALIDATION_THRESHOLDS
  /\ \E p \in Records(comparison_results) :
        \E i \in DOMAIN RefVals(p[1], p[2]) : RefVals(p[1], p[2])[i] = NaN

\* the run went past the extraction and ended without any record
EndedWithoutRecord ==
  /\ pc = "done"
  /\ BothLoaded
  /\ error # "IndexError"
  /\ Records(comparison_results) = {}

\* C22: a run in which both sides loaded and every requested pair was
\* excluded ends with pass count 0, total count 0 and exit status 0.
C22_NoRecordExitsZero ==
  EndedWithoutRecord =>
    /\ pass_count = 0
    /\ total_count = 0
    /\ exit_code = 0

\* the same for the runs in which no excluded pair had equal shapes
NoRecordNoRaiseExitsZero ==
  (EndedWithoutRecord /\ error = "") =>
    /\ pass_count = 0
    /\ total_count = 0
    /\ exit_code = 0
    /\ report # None
    /\ report.total_tests = 0

\* C23: in every record |mean_ref - mean_test| <= mean_abs_diff <= rmse
\* <= max_abs_diff (with S the sum of the absolute differences, Q the sum
\* of their squares and n the count: |sum_ref - sum_test| <= S,
\* S^2 <= n Q, Q <= n max^2), so under one threshold the max check
\* implies the rmse check, which implies the mean check.
C23_MetricOrder ==
  Compared =>
    \A p \in Records(comparison_results) :
       LET rec == RecordOf(p)
           b   == Abs(rec.sum_ref)
       IN  /\ Abs(rec.sum_ref - rec.sum_test) <= rec.sum_abs_diff
           /\ rec.sum_abs_diff * rec.sum_abs_diff <= rec.n * rec.sum_sq_diff
           /\ rec.sum_sq_diff <= rec.n * rec.max_abs_diff * rec.max_abs_diff
           /\ rec.sum_ref # 0 =>
                \A t \in {thresholds.mean, thresholds.rmse, thresholds.max_abs_diff} :
                   /\ QuotLess(rec.max_abs_diff * rec.n, b, t)
                        => SqrtQuotLess(rec.sum_sq_diff * rec.n, b, t)
                   /\ SqrtQuotLess(rec.sum_sq_diff * rec.n, b, t)
                        => QuotLess(Abs(rec.sum_ref - rec.sum_test), b, t)

\* a record in which the four quantities are strictly ordered
C23_Witness ==
  /\ Compared
  /\ \E p \in Records(comparison_results) :
        LET rec == RecordOf(p)
        IN  /\ rec.sum_ref # 0
            /\ Abs(rec.sum_ref - rec.sum_test) < rec.sum_abs_diff
            /\ rec.sum_abs_diff * rec.sum_abs_diff < rec.n * rec.sum_sq_diff
            /\ rec.sum_sq_diff < rec.n * rec.max_abs_diff * rec.max_abs_diff
            /\ Abs(rec.sum_ref - rec.sum_test) > 0

\* ============================================== benchmark-orchestrator.py
\* ------------------------------------------------------ wait_for_batch_jobs
\* most jobs handed to one call of wait_for_batch_jobs
MaxJobs == 3

\* the timeout of a call, in minutes (the parameter max_wait_minutes)
MaxWaitMinutes == 3

JobTypes == {"batch", "parallel_cluster"}

\* lines 404-411 and 424-431: the job_info of the job submitted for the
\* benchmark at position i
JobInfo(i, type) == [job_id |-> i, benchmark_id |-> i, type |-> type]

\* the job lists of up to MaxJobs jobs
JobLists ==
  UNION {{[i \in 1..n |-> JobInfo(i, types[i])] : types \in [1..n -> JobTypes]}
         : n \in 0..MaxJobs}

\* the status a describe_jobs response gives for a job; "ABSENT" when the
\* response has no entry for it
Statuses == {"ABSENT", "RUNNING", "SUCCEEDED", "FAILED"}

\* line 311
BatchJobIds(pending) ==
  {pending[k].job_id : k \in {x \in DOMAIN pending : pending[x].type = "batch"}}

\* line 319: describe_jobs raises, or answers with a status per job id
DescribeOutcomes(batch_ids) ==
  {[raised |-> TRUE, status |-> [id \in batch_ids |-> "ABSENT"]]}
  \cup {[raised |-> FALSE, status |-> st] : st \in [batch_ids -> Statuses]}

\* lines 321-337: the ids the response reports as SUCCEEDED or FAILED
Finished(outcome) ==
  IF outcome.raised THEN {}
  ELSE {id \in DOMAIN outcome.status : outcome.status[id] \in {"SUCCEEDED", "FAILED"}}

\* line 336, for every finished job of the response
RemoveJobs(pending, ids) == SelectSeq(pending, LAMBDA job : job.job_id \notin ids)

\* the minutes the calls of one round take beyond the sleep
Latency == {0, 1}

\* the round sleeps nowhere
AfterSleep_NoSleep(t, d) == t

\* line 352: time.sleep(60), after calls that took d minutes
AfterSleep(t, d) == t + 1 + d

\* line 304
Timeout(wargs) == wargs.max_wait_minutes

\* lines 293-294 and 296-306
WaitEnter ==
  /\ wait_pc = "entry"
  /\ IF wait_args.dry_run \/ wait_args.jobs = << >>
     THEN /\ wait_pc' = "returned"
          /\ UNCHANGED pending_jobs
     ELSE /\ wait_pc' = "loop"
          /\ pending_jobs' = wait_args.jobs
  /\ elapsed' = 0
  /\ UNCHANGED <<wait_args, removed>>
  /\ UNCHANGED <<validator_vars, orchestrator_vars, monitor_vars, download_vars>>

\* lines 308-352: one round of the polling loop
WaitPoll ==
  /\ wait_pc = "loop"
  /\ pending_jobs # << >>
  /\ elapsed < Timeout(wait_args)
  /\ \E outcome \in DescribeOutcomes(BatchJobIds(pending_jobs)), d \in Latency :
        LET left == RemoveJobs(pending_jobs, Finished(outcome))
        IN  /\ pending_jobs' = left
            /\ removed' = removed \cup {<<id, outcome.status[id]>> : id \in Finished(outcome)}
            /\ elapsed' = IF left # << >> THEN AfterSleep(elapsed, d) ELSE elapsed + d
  /\ UNCHANGED <<wait_pc, wait_args>>
  /\ UNCHANGED <<validator_vars, orchestrator_vars, monitor_vars, download_vars>>

\* lines 308 and 354-360: the loop condition fails and the call returns
WaitReturn ==
  /\ wait_pc = "loop"
  /\ pending_jobs = << >> \/ elapsed >= Timeout(wait_args)
  /\ wait_pc' = "returned"
  /\ UNCHANGED <<wait_args, pending_jobs, elapsed, removed>>
  /\ UNCHANGED <<validator_vars, orchestrator_vars, monitor_vars, download_vars>>

\* a call of wait_for_batch_jobs on any job list
InitWait ==
  /\ ValidatorIdle
  /\ OrchestratorIdle
  /\ MonitorIdle
  /\ DownloadIdle
  /\ wait_pc = "entry"
  /\ wait_args \in [jobs : JobLists, dry_run : BOOLEAN,
                    max_wait_minutes : {MaxWaitMinutes}]
  /\ pending_jobs = << >>
  /\ elapsed = 0
  /\ removed = {}

NextWait ==
  \/ WaitEnter
  \/ WaitPoll
  \/ WaitReturn

SpecWait == InitWait /\ [][NextWait]_vars

\* the call keeps running: every statement of it returns or raises
SpecWaitLive == SpecWait /\ WF_vars(NextWait)

\* the ids of the jobs of a list
JobIds(jobs) == {jobs[k].job_id : k \in DOMAIN jobs}

\* the job of the call that has the id
JobOf(id) == wait_args.jobs[CHOOSE k \in DOMAIN wait_args.jobs : wait_args.jobs[k].job_id = id]

\* a job is out of the pending set only as removed for a SUCCEEDED or
\* FAILED report, and no parallel_cluster job is ever out of it
LeavesOnlyWhenFinished ==
  wait_pc \in {"loop", "returned"} /\ ~wait_args.dry_run /\ wait_args.jobs # << >> =>
    /\ \A id \in JobIds(wait_args.jobs) \ JobIds(pending_jobs) :
          /\ \E st \in {"SUCCEEDED", "FAILED"} : <<id, st>> \in removed
          /\ JobOf(id).type = "batch"
    /\ \A r \in removed : r[2] \in {"SUCCEEDED", "FAILED"} /\ r[1] \notin JobIds(pending_jobs)

\* a call that was given a parallel_cluster job has returned only by timeout
ClusterJobEndsByTimeout ==
  (/\ wait_pc = "returned"
   /\ ~wait_args.dry_run
   /\ \E k \in DOMAIN wait_args.jobs : wait_args.jobs[k].type = "parallel_cluster")
  => (elapsed >= Timeout(wait_args) /\ pending_jobs # << >>)

\* no further round is made once the pending set is empty or the time is up
EndsWhenDone ==
  [][(wait_pc = "loop" /\ (pending_jobs = << >> \/ elapsed >= Timeout(wait_args)))
       => (wait_pc' = "returned" /\ pending_jobs' = pending_jobs)]_vars

\* C26: wait_for_batch_jobs returns whatever the responses and errors; a
\* job leaves the pending set only after a SUCCEEDED or FAILED report; the
\* loop ends once the pending set is empty or the timeout has elapsed; a
\* parallel_cluster job is never removed, so its call ends only by timeout.
C26_WaitReturns ==
  /\ <>(wait_pc = "returned")
  /\ [](LeavesOnlyWhenFinished /\ ClusterJobEndsByTimeout)
  /\ EndsWhenDone

\* a call that returned by timeout with a parallel_cluster job pending,
\* after a batch job was removed as FAILED and describe_jobs raised once
C26_Witness ==
  /\ wait_pc = "returned"
  /\ elapsed >= Timeout(wait_args)
  /\ \E k \in DOMAIN pending_jobs : pending_jobs[k].type = "parallel_cluster"
  /\ \E r \in removed : r[2] = "FAILED"

\* ----------------------------------------------------------- run_benchmarks
\* most benchmarks of a configuration
MaxBenchmarks == 7

\* line 441: at most this many jobs are waited for at a time
WaitSubset == 5

\* line 248 and line 268: the job id "dry-run-job-id" of a dry run
DryRunJobId == 0

Applications == {"gc-classic", "gchp"}

\* the benchmarks of the selected phases (lines 365-379), ids by position
BenchmarkLists ==
  UNION {{[i \in 1..n |-> [id |-> i, application |-> apps[i]]]
            : apps \in [1..n -> Applications]}
         : n \in 0..MaxBenchmarks}

\* --max-concurrent, --dry-run, and whether --parallel-cluster and both of
\* --job-queue and --job-definition were given
BenchArgs ==
  [max_concurrent : {0, 1, 2, 6}, dry_run : BOOLEAN,
   parallel_cluster : BOOLEAN, job_queue : BOOLEAN]

\* line 393
IsGchp(benchmark) == benchmark.application = "gchp"

\* lines 397 and 417: the benchmark is skipped for a missing option
Skipped(benchmark, bargs) ==
  IF IsGchp(benchmark) THEN ~bargs.parallel_cluster ELSE ~bargs.job_queue

\* whether a job id came back: always in a dry run of submit_batch_job
\* (line 248); for GCHP the parameters may be None (lines 402-403)
SubmitOutcomes(benchmark, bargs) ==
  IF ~IsGchp(benchmark) /\ bargs.dry_run THEN {TRUE} ELSE BOOLEAN

\* lines 405-412 and 425-432; submission_time told by the position
SubmittedJob(benchmark, bargs) ==
  [job_id          |-> IF bargs.dry_run THEN DryRunJobId ELSE benchmark.id,
   benchmark_id    |-> benchmark.id,
   type            |-> IF IsGchp(benchmark) THEN "parallel_cluster" ELSE "batch",
   submission_time |-> benchmark.id]

Min2(a, b) == IF a <= b THEN a ELSE b

\* line 441
SubsetToWait(jobs) == SubSeq(jobs, 1, Min2(WaitSubset, Len(jobs)))

\* list.remove: the first element equal to the job
RemoveFirst(jobs, job) ==
  IF \E k \in DOMAIN jobs : jobs[k] = job
  THEN LET k == CHOOSE x \in DOMAIN jobs :
                  jobs[x] = job /\ \A y \in DOMAIN jobs : jobs[y] = job => x <= y
       IN  SubSeq(jobs, 1, k - 1) \o SubSeq(jobs, k + 1, Len(jobs))
  ELSE jobs

\* lines 444-446: the loop of list.remove over the subset
RECURSIVE RemoveAll(_, _)
RemoveAll(jobs, subset) ==
  IF subset = << >> THEN jobs
  ELSE RemoveAll(RemoveFirst(jobs, Head(subset)), Tail(subset))

\* only the jobs the wait saw finished are removed
RemoveWaited_FinishedOnly(jobs, subset, finished) ==
  RemoveAll(jobs, SelectSeq(subset, LAMBDA job : job.job_id \in finished))

\* lines 444-446: every job of the subset is removed, finished or not
RemoveWaited(jobs, subset, finished) == RemoveAll(jobs, subset)

\* what a call of wait_for_batch_jobs may have seen finished: nothing in a
\* dry run or for no jobs, else any of the batch jobs
WaitObservations(jobs, bargs) ==
  IF bargs.dry_run \/ jobs = << >> THEN {{}} ELSE SUBSET BatchJobIds(jobs)

\* lines 389-432: the benchmark is skipped, or submitted and tracked
SubmitBenchmark ==
  /\ bench_pc = "benchmark"
  /\ bench_i <= Len(benchmarks)
  /\ LET benchmark == benchmarks[bench_i]
     IN  IF Skipped(benchmark, bench_args)
         THEN /\ bench_i' = bench_i + 1
              /\ UNCHANGED <<bench_pc, submitted_jobs, submission_log>>
         ELSE /\ \E accepted \in SubmitOutcomes(benchmark, bench_args) :
                    IF accepted
                    THEN /\ submitted_jobs' =
                              Append(submitted_jobs, SubmittedJob(benchmark, bench_args))
                         /\ submission_log' =
                              submission_log \cup {SubmittedJob(benchmark, bench_args)}
                    ELSE UNCHANGED <<submitted_jobs, submission_log>>
              /\ bench_pc' = "limit"
              /\ UNCHANGED bench_i
  /\ UNCHANGED <<bench_args, benchmarks, observed, metadata>>
  /\ UNCHANGED <<validator_vars, wait_vars, monitor_vars, download_vars>>

\* lines 436-446
LimitJobs ==
  /\ bench_pc = "limit"
  /\ IF Len(submitted_jobs) >= bench_args.max_concurrent
     THEN \E finished \in WaitObservations(SubsetToWait(submitted_jobs), bench_args) :
             /\ observed' = finished
             /\ submitted_jobs' =
                  RemoveWaited(submitted_jobs, SubsetToWait(submitted_jobs), finished)
     ELSE UNCHANGED <<observed, submitted_jobs>>
  /\ bench_i' = bench_i + 1
  /\ bench_pc' = "benchmark"
  /\ UNCHANGED <<bench_args, benchmarks, submission_log, metadata>>
  /\ UNCHANGED <<validator_vars, wait_vars, monitor_vars, download_vars>>

\* lines 448-452
FinalWait ==
  /\ bench_pc = "benchmark"
  /\ bench_i > Len(benchmarks)
  /\ IF submitted_jobs # << >> /\ ~bench_args.dry_run
     THEN observed' \in WaitObservations(submitted_jobs, bench_args)
     ELSE UNCHANGED observed
  /\ bench_pc' = "save"
  /\ UNCHANGED <<bench_args, benchmarks, bench_i, submitted_jobs, submission_log,
                 metadata>>
  /\ UNCHANGED <<validator_vars, wait_vars, monitor_vars, download_vars>>

\* main line 536 with lines 456-457 and 487-489; the write may fail (line 507)
SaveMetadata ==
  /\ bench_pc = "save"
  /\ IF submitted_jobs = << >>
     THEN UNCHANGED metadata
     ELSE \E written \in BOOLEAN :
             metadata' = IF written THEN submitted_jobs ELSE metadata
  /\ bench_pc' = "done"
  /\ UNCHANGED <<bench_args, benchmarks, bench_i, submitted_jobs, submission_log,
                 observed>>
  /\ UNCHANGED <<validator_vars, wait_vars, monitor_vars, download_vars>>

\* main at line 533
InitBench ==
  /\ ValidatorIdle
  /\ WaitIdle
  /\ MonitorIdle
  /\ DownloadIdle
  /\ bench_pc = "benchmark"
  /\ bench_args \in BenchArgs
  /\ benchmarks \in BenchmarkLists
  /\ bench_i = 1
  /\ submitted_jobs = << >>
  /\ submission_log = {}
  /\ observed = {}
  /\ metadata = None

NextBench ==
  \/ SubmitBenchmark
  \/ LimitJobs
  \/ FinalWait
  \/ SaveMetadata

SpecBench == InitBench /\ [][NextBench]_vars

\* run_benchmarks has returned
Returned == bench_pc \in {"save", "done"}

\* C24: the list run_benchmarks returns, which save_benchmark_metadata
\* writes, holds every job that was submitted with success during the run.
C24_RecordHoldsEverySubmission ==
  /\ Returned => \A job \in submission_log : job \in Range(submitted_jobs)
  /\ (bench_pc = "done" /\ metadata # None) =>
        \A job \in submission_log : job \in Range(metadata)

\* what holds: the returned list is made of submitted jobs, in order of
\* submission, and lacks exactly the jobs removed at line 446
ReturnedListIsSuffix ==
  Returned =>
    /\ \A k \in DOMAIN submitted_jobs : submitted_jobs[k] \in submission_log
    /\ \A job \in submission_log :
          job \notin Range(submitted_jobs) =>
             \A k \in DOMAIN submitted_jobs :
                job.submission_time < submitted_jobs[k].submission_time
    /\ bench_args.max_concurrent > Cardinality(submission_log) =>
          Range(submitted_jobs) = submission_log

\* the tracking list without its first k jobs
DropFirst(jobs, k) == SubSeq(jobs, k + 1, Len(jobs))

MaxRounds == 3

\* lines 193-209: the job_details of a submitted job
MonitoredJob(i) == [job_id |-> i, status |-> "SUBMITTED"]

MonitoredLists == {[i \in 1..n |-> MonitoredJob(i)] : n \in 0..MaxJobs}

\* what the describe_jobs call for a job gives: an exception (line 282), an
\* empty "jobs" list (line 241), or the job's status
MonitorOutcomes == {"raised", "not_found", "RUNNING", "SUCCEEDED", "FAILED"}

\* the job leaves the tracking list on an exception as well
StaysTracked_DropOnError(outcome) == outcome = "RUNNING"

\* lines 238-283: the job is neither removed at line 243 nor at line 271
StaysTracked(outcome) == outcome \in {"raised", "RUNNING"}

\* line 250: job["status"] = status, when a status came back
WithStatus(job, outcome) ==
  IF outcome \in {"raised", "not_found"} THEN job ELSE [job EXCEPT !.status = outcome]

Updated(jobs, outcomes) ==
  [k \in DOMAIN jobs |-> WithStatus(jobs[k], outcomes[jobs[k].job_id])]

\* lines 235-288: one round over the tracked jobs, then the sleep
MonitorPoll ==
  /\ mon_pc = "loop"
  /\ tracked_jobs # << >>
  /\ rounds < MaxRounds
  /\ \E outcomes \in [JobIds(tracked_jobs) -> MonitorOutcomes] :
        LET jobs == Updated(tracked_jobs, outcomes)
        IN  /\ tracked_jobs' =
                 SelectSeq(jobs, LAMBDA job : StaysTracked(outcomes[job.job_id]))
            /\ completed_jobs' =
                 completed_jobs
                 \o SelectSeq(jobs, LAMBDA job : outcomes[job.job_id] \in {"SUCCEEDED", "FAILED"})
            /\ not_found' =
                 not_found \cup {id \in JobIds(tracked_jobs) : outcomes[id] = "not_found"}
            /\ last_outcome' = outcomes
  /\ rounds' = rounds + 1
  /\ UNCHANGED <<mon_pc, mon_jobs>>
  /\ UNCHANGED <<validator_vars, orchestrator_vars, wait_vars, download_vars>>

\* lines 235 and 290-301: the tracking list is empty and the call returns
MonitorReturn ==
  /\ mon_pc = "loop"
  /\ tracked_jobs = << >>
  /\ mon_pc' = "returned"
  /\ UNCHANGED <<mon_jobs, tracked_jobs, completed_jobs, not_found, last_outcome, rounds>>
  /\ UNCHANGED <<validator_vars, orchestrator_vars, wait_vars, download_vars>>

\* monitor_jobs after line 232
InitMonitor ==
  /\ ValidatorIdle
  /\ OrchestratorIdle
  /\ WaitIdle
  /\ DownloadIdle
  /\ mon_pc = "loop"
  /\ mon_jobs \in MonitoredLists
  /\ tracked_jobs = mon_jobs
  /\ completed_jobs = << >>
  /\ not_found = {}
  /\ last_outcome = << >>
  /\ rounds = 0

NextMonitor ==
  \/ MonitorPoll
  \/ MonitorReturn

SpecMonitor == InitMonitor /\ [][NextMonitor]_vars

\* the positions of the job id in a list
PositionsOf(jobs, id) == {k \in DOMAIN jobs : jobs[k].job_id = id}

\* C27: monitor_jobs returns only with an empty tracking list; then every
\* job is in the returned list exactly once with status SUCCEEDED or FAILED,
\* or was dropped as not found; a job whose query raises or whose status is
\* not final stays in the tracking list, round after round.
C27_MonitorUntilFinal ==
  /\ [](mon_pc = "returned" =>
          /\ tracked_jobs = << >>
          /\ \A id \in JobIds(mon_jobs) :
                \/ /\ Cardinality(PositionsOf(completed_jobs, id)) = 1
                   /\ \A k \in PositionsOf(completed_jobs, id) :
                         completed_jobs[k].status \in {"SUCCEEDED", "FAILED"}
                   /\ id \notin not_found
                \/ /\ PositionsOf(completed_jobs, id) = {}
                   /\ id \in not_found)
  /\ [][mon_pc = "loop" /\ rounds' = rounds + 1 =>
          \A id \in JobIds(tracked_jobs) :
             last_outcome'[id] \in {"raised", "RUNNING"}
               => PositionsOf(tracked_jobs', id) # {}]_vars

\* after every round followed, a job whose query raised each time is still
\* tracked, next to a finished job and a job dropped as not found
C27_Witness ==
  /\ mon_pc = "loop"
  /\ rounds = MaxRounds
  /\ \E id \in JobIds(tracked_jobs) : last_outcome[id] = "raised"
  /\ completed_jobs # << >>
  /\ not_found # {}

\* ======================================================= download_data.py
\* -------------------------------------------------- get_required_data_paths
\* the years drawn at each end of the calendar
YearSpan == 2

\* the first year of the simulations drawn
FirstYear == 2023

\* datetime.MAXYEAR: the constructor of line 52 raises ValueError above it
MAXYEAR == 9999

SimulationYears == FirstYear..(FirstYear + YearSpan - 1)

LastYears == (MAXYEAR - YearSpan + 1)..MAXYEAR

DaysDrawn == {1, 15, 28}

\* the date strings "YYYYMMDD" of the configuration, as their eight digits
DateStrings(years) ==
  {y * 10000 + mo * 100 + d : y \in years, mo \in 1..12, d \in DaysDrawn}

\* lines 30-31: datetime.strptime(text, "%Y%m%d")
Strptime(text) ==
  [year |-> text \div 10000, month |-> (text \div 100) % 100, day |-> text % 100]

\* line 41: a <= b of two datetimes at midnight
DateLE(a, b) ==
  \/ a.year < b.year
  \/ a.year = b.year /\ a.month < b.month
  \/ a.year = b.year /\ a.month = b.month /\ a.day <= b.day

\* lines 47-52: the first day of the next month
NextMonth(date) ==
  [year |-> IF date.month + 1 > 12 THEN date.year + 1 ELSE date.year,
   month |-> IF date.month + 1 > 12 THEN 1 ELSE date.month + 1,
   day |-> 1]

\* lines 42-43: the path "<input_path>/YYYY/MM/", as its year and month
DataPath(date) == <<date.year, date.month>>

\* lines 30-40
ParseDates ==
  /\ dl_pc = "start"
  /\ current_date' = Strptime(dl_config.start_date)
  /\ dl_pc' = "loop"
  /\ UNCHANGED <<dl_config, data_paths, dl_error>>
  /\ UNCHANGED <<validator_vars, orchestrator_vars, wait_vars, monitor_vars>>

\* lines 41-52: one iteration of the loop
AppendMonth ==
  /\ dl_pc = "loop"
  /\ DateLE(current_date, Strptime(dl_config.end_date))
  /\ data_paths' = Append(data_paths, DataPath(current_date))
  /\ IF NextMonth(current_date).year > MAXYEAR
       THEN /\ dl_pc' = "raised"
            /\ dl_error' = "ValueError"
            /\ UNCHANGED current_date
       ELSE /\ current_date' = NextMonth(current_date)
            /\ UNCHANGED <<dl_pc, dl_error>>
  /\ UNCHANGED dl_config
  /\ UNCHANGED <<validator_vars, orchestrator_vars, wait_vars, monitor_vars>>

\* lines 41 and 54: the loop ends and the list is returned
ReturnPaths ==
  /\ dl_pc = "loop"
  /\ ~DateLE(current_date, Strptime(dl_config.end_date))
  /\ dl_pc' = "returned"
  /\ UNCHANGED <<dl_config, current_date, data_paths, dl_error>>
  /\ UNCHANGED <<validator_vars, orchestrator_vars, wait_vars, monitor_vars>>

\* get_required_data_paths at line 27, both dates of one end of the calendar
InitDates ==
  /\ ValidatorIdle
  /\ OrchestratorIdle
  /\ WaitIdle
  /\ MonitorIdle
  /\ dl_pc = "start"
  /\ \E years \in {SimulationYears, LastYears} :
        dl_config \in [start_date : DateStrings(years), end_date : DateStrings(years)]
  /\ current_date = None
  /\ data_paths = << >>
  /\ dl_error = ""

NextDates ==
  \/ ParseDates
  \/ AppendMonth
  \/ ReturnPaths

SpecDates == InitDates /\ [][NextDates]_vars

\* the function's own steps are taken: nothing else runs in the process
SpecDatesLive == SpecDates /\ WF_vars(NextDates)

\* the calendar months counted from year 0
MonthNumber(date) == date.year * 12 + date.month - 1

\* one path per calendar month from the month of the start date through the
\* month of the end date, in chronological order; none when start is after end
MonthsThrough ==
  LET first == Strptime(dl_config.start_date)
      last  == Strptime(dl_config.end_date)
  IN  IF DateLE(first, last)
        THEN [k \in 1..(MonthNumber(last) - MonthNumber(first) + 1) |->
                <<(MonthNumber(first) + k - 1) \div 12,
                  ((MonthNumber(first) + k - 1) % 12) + 1>>]
        ELSE << >>

\* C28: get_required_data_paths terminates for every start and end date and
\* returns, in chronological order and without duplicates, exactly one path
\* per calendar month from the month of the start date through the month of
\* the end date; when the start date is after the end date it returns none.
C28_OnePathPerMonth ==
  /\ <>(dl_pc = "returned")
  /\ [](dl_pc = "returned" => data_paths = MonthsThrough)

\* what the function does: it ends, by a return with the paths of the months
\* or, for an end date in December of the last year, by a ValueError
PathsOrValueError ==
  /\ <>(dl_pc \in {"returned", "raised"})
  /\ [](dl_pc = "returned" => data_paths = MonthsThrough)
  /\ [](dl_pc = "raised" =>
          /\ Strptime(dl_config.end_date).year = MAXYEAR
          /\ Strptime(dl_config.end_date).month = 12
          /\ DateLE(Strptime(dl_config.start_date), Strptime(dl_config.end_date)))
  /\ [](/\ dl_pc = "returned"
        /\ DateLE(Strptime(dl_config.start_date), Strptime(dl_config.end_date))
        => ~(/\ Strptime(dl_config.end_date).year = MAXYEAR
             /\ Strptime(dl_config.end_date).month = 12))
====
